---- MODULE Spec2Model ----
(***************************************************************************)
(* Verification model of antigravity2api-nodejs.                           *)
(*                                                                         *)
(* Part 1: the credential pool (TokenManager, token-manager.ts) together   *)
(* with the persistence jobs it starts on the TokenStore and the upstream  *)
(* error handler that disables credentials.                                *)
(*                                                                         *)
(* Token objects are JavaScript objects shared by reference: the pool, the *)
(* in-flight getToken() calls, the requests that were handed a token and   *)
(* the pending persistence jobs all point to the same object.  objs is the *)
(* heap; an object is named by <<g, rt>>, g the _initialize() run that     *)
(* created it and rt its refresh_token.  Array positions are 0-based as in *)
(* the source.  Every await of the source is a point where the action ends *)
(* and another task may run.                                               *)
(***************************************************************************)
EXTENDS Integers, Sequences, FiniteSets, TLC

\* ---------------------------------------------------------------- bounds
MaxTokens  == 2      \* records in the credential file
MaxCalls   == 4      \* getToken() calls started in one sequential behaviour
MaxConcCalls == 2    \* getToken() calls started in one concurrent behaviour
MaxReloadCalls == 1  \* getToken() calls started in one behaviour with reloads
MaxReloads == 1      \* reload() calls in one behaviour
MaxJobs    == 1      \* persistence writes in flight; a further one fails
MaxCount   == 2      \* largest configured requestCountPerToken
NumCallers == 2      \* request handlers that can be in flight together

RotationStrategy == {"round_robin", "quota_exhausted", "request_count"}

Callers == 1..NumCallers
Tasks   == 0..MaxReloads          \* 0: lazy first _initialize, 1..: reload()
Rts     == 1..MaxTokens
Undef   == <<0 - 1, 0>>           \* JavaScript undefined, as a token
NoIdx   == 0 - 1                  \* JavaScript undefined, as an array index

VARIABLES
    config,  \* config.json: rotation settings and skipProjectIdFetch
    tm,      \* the TokenManager instance: its fields
    objs,    \* heap of token objects
    file,    \* accounts.json: sequence of credential records
    jobs,    \* mergeActiveTokens() calls in flight
    tasks,   \* _initialize() runs: position and pending refreshes
    calls,   \* per request handler: position in getToken() and its locals
    ncalls,  \* getToken() calls started so far
    hist,    \* handouts since the last disturbance
    fresh,   \* no disturbance since the first initialization
    ev,      \* what the last step did
    retry,   \* one with429Retry() call: its locals and what it did so far
    strm,    \* one streamed upstream response: parser state and callbacks
    cache,   \* the thought-signature caches and the clock
    req,     \* the request being served and who stored which signature
    names,   \* the tool-name mapping cache, its clock and the last calls on it
    cvt,     \* one call of a converter or of a pure helper: input and output
    admin    \* one call of the admin API on the credentials: its position

\* the credential pool and its clients
tmvars == <<config, tm, objs, file, jobs, tasks, calls, ncalls, hist, fresh, ev>>

\* the request path behind the pool
pvars == <<names, cvt, admin>>
xvars == <<retry, strm, cache, req, pvars>>

vars == <<tmvars, xvars>>

\* ---------------------------------------------------------------- helpers
Min(a, b) == IF a < b THEN a ELSE b
Max(a, b) == IF a > b THEN a ELSE b

\* JavaScript arithmetic on a cursor that may be NaN (x % 0)
NaN == NoIdx
ModJS(a, b) == IF a = NaN \/ b = 0 THEN NaN ELSE a % b
AddJS(a, b) == IF a = NaN THEN NaN ELSE a + b

RECURSIVE SelectIdx(_, _, _)
\* positions i (0-based) of s from position k on for which P[i] holds
SelectIdx(n, k, P) ==
    IF k >= n THEN <<>>
    ELSE IF P[k] THEN <<k>> \o SelectIdx(n, k + 1, P) ELSE SelectIdx(n, k + 1, P)

RECURSIVE Filter(_, _)
Filter(s, keep) ==
    IF s = <<>> THEN <<>>
    ELSE IF keep[Head(s)] THEN <<Head(s)>> \o Filter(Tail(s), keep)
    ELSE Filter(Tail(s), keep)

RECURSIVE IndexOf(_, _, _)
\* Array.prototype.indexOf / findIndex: first 0-based position, or -1
IndexOf(s, k, P) ==
    IF k >= Len(s) THEN 0 - 1
    ELSE IF P[s[k + 1]] THEN k ELSE IndexOf(s, k + 1, P)

RemoveAt(s, pos) == SubSeq(s, 1, pos) \o SubSeq(s, pos + 2, Len(s))

RtOf(o) == o[2]
RtsOf(s) == {RtOf(s[k]) : k \in 1..Len(s)}

\* generateSessionId(): some non-empty id; nothing compares two of them
generateSessionId == 1

BlankObj == [at |-> 0, exp |-> FALSE, proj |-> FALSE, quota |-> TRUE, en |-> TRUE,
             sessionId |-> 0]

\* the state the TokenManager methods read and write
World == [tm |-> tm, objs |-> objs, jobs |-> jobs]

\* this.tokens[i]
TokenAt(w, i) ==
    IF i >= 0 /\ i < Len(w.tm.tokens) THEN w.tm.tokens[i + 1] ELSE Undef

\* this.availableQuotaTokenIndices[i]
QuotaIdxAt(w, i) ==
    IF i >= 0 /\ i < Len(w.tm.availableQuotaTokenIndices)
    THEN w.tm.availableQuotaTokenIndices[i + 1] ELSE NoIdx

\* ------------------------------------------------- TokenManager: methods
\* Each method is the source method as a function of the state it touches.

\* a started mergeActiveTokens(activeTokens, tokenToUpdate); activeTokens is read
\* only when tokenToUpdate is null
NewJob(arr, one) ==
    [arr |-> IF one = Undef THEN arr ELSE <<>>, one |-> one, phase |-> "read",
     content |-> <<>>, dis |-> {}]

\* the credentials a write of the whole pool is started for by disableToken:
\* those of this.tokens whose enable is false (kept with the write to follow it)
DisabledIn(w, one) ==
    IF one # Undef THEN {}
    ELSE {RtOf(w.tm.tokens[k]) : k \in {i \in 1..Len(w.tm.tokens) : ~w.objs[w.tm.tokens[i]].en}}

\* saveToFile(tokenToUpdate): starts store.mergeActiveTokens(this.tokens, t)
\* and does not wait for it.
saveToFile(w, one) ==
    IF Cardinality(w.jobs) < MaxJobs
    THEN [w EXCEPT !.jobs = @ \cup {[NewJob(w.tm.tokens, one) EXCEPT
                                        !.dis = DisabledIn(w, one)]}]
    ELSE w

_rebuildAvailableQuotaTokens(w) ==
    LET n == Len(w.tm.tokens)
        ok == [i \in 0..(n - 1) |->
                  w.objs[w.tm.tokens[i + 1]].en /\ w.objs[w.tm.tokens[i + 1]].quota]
        av == SelectIdx(n, 0, ok)
    IN [w EXCEPT !.tm.availableQuotaTokenIndices = av,
                 !.tm.currentQuotaIndex =
                     IF av = <<>> THEN 0 ELSE w.tm.currentQuotaIndex % Len(av)]

_removeQuotaIndex(w, tokenIndex) ==
    LET av  == w.tm.availableQuotaTokenIndices
        pos == IndexOf(av, 0, [x \in 0..MaxTokens |-> x = tokenIndex])
        av2 == RemoveAt(av, pos)
    IN IF pos = 0 - 1 THEN w
       ELSE [w EXCEPT !.tm.availableQuotaTokenIndices = av2,
                      !.tm.currentQuotaIndex =
                          IF w.tm.currentQuotaIndex >= Len(av2) THEN 0
                          ELSE w.tm.currentQuotaIndex]

disableToken(w, o) ==
    LET w1 == [w EXCEPT !.objs[o].en = FALSE]
        w2 == saveToFile(w1, Undef)
        keep == [p \in DOMAIN w.objs |-> RtOf(p) # RtOf(o)]
        toks == Filter(w2.tm.tokens, keep)
        w3 == [w2 EXCEPT !.tm.tokens = toks,
                         !.tm.currentIndex = ModJS(w2.tm.currentIndex, Max(Len(toks), 1))]
    IN _rebuildAvailableQuotaTokens(w3)

incrementRequestCount(w, key) ==
    [w EXCEPT !.tm.tokenRequestCounts[key] = @ + 1]

resetRequestCount(w, key) ==
    [w EXCEPT !.tm.tokenRequestCounts[key] = 0]

\* shouldRotate that never advances under round_robin
shouldRotate_stay(w, o) ==
    CASE w.tm.rotationStrategy = "round_robin" -> [w |-> w, rot |-> FALSE]
      [] w.tm.rotationStrategy = "quota_exhausted" ->
            [w |-> w, rot |-> ~w.objs[o].quota]
      [] w.tm.rotationStrategy = "request_count" ->
            LET w1 == incrementRequestCount(w, RtOf(o))
            IN IF w1.tm.tokenRequestCounts[RtOf(o)] >= w.tm.requestCountPerToken
               THEN [w |-> resetRequestCount(w1, RtOf(o)), rot |-> TRUE]
               ELSE [w |-> w1, rot |-> FALSE]

\* shouldRotate that compares the counter with > in place of >=
shouldRotate_late(w, o) ==
    CASE w.tm.rotationStrategy = "round_robin" -> [w |-> w, rot |-> TRUE]
      [] w.tm.rotationStrategy = "quota_exhausted" ->
            [w |-> w, rot |-> ~w.objs[o].quota]
      [] w.tm.rotationStrategy = "request_count" ->
            LET w1 == incrementRequestCount(w, RtOf(o))
            IN IF w1.tm.tokenRequestCounts[RtOf(o)] > w.tm.requestCountPerToken
               THEN [w |-> resetRequestCount(w1, RtOf(o)), rot |-> TRUE]
               ELSE [w |-> w1, rot |-> FALSE]

\* shouldRotate(token): the answer and the state it leaves (the counter)
shouldRotate(w, o) ==
    CASE w.tm.rotationStrategy = "round_robin" -> [w |-> w, rot |-> TRUE]
      [] w.tm.rotationStrategy = "quota_exhausted" ->
            [w |-> w, rot |-> ~w.objs[o].quota]
      [] w.tm.rotationStrategy = "request_count" ->
            LET w1 == incrementRequestCount(w, RtOf(o))
            IN IF w1.tm.tokenRequestCounts[RtOf(o)] >= w.tm.requestCountPerToken
               THEN [w |-> resetRequestCount(w1, RtOf(o)), rot |-> TRUE]
               ELSE [w |-> w1, rot |-> FALSE]

\* markQuotaExhausted that updates the filtered index under every strategy
markQuotaExhausted_any(w, o) ==
    LET w1 == [w EXCEPT !.objs[o].quota = FALSE]
        w2 == saveToFile(w1, o)
        tokenIndex == IndexOf(w2.tm.tokens, 0,
                              [p \in DOMAIN w.objs |-> RtOf(p) = RtOf(o)])
        w3 == IF tokenIndex # 0 - 1 THEN _removeQuotaIndex(w2, tokenIndex) ELSE w2
    IN [w3 EXCEPT !.tm.currentIndex =
                      ModJS(AddJS(w3.tm.currentIndex, 1), Max(Len(w3.tm.tokens), 1))]

markQuotaExhausted(w, o) ==
    LET w1 == [w EXCEPT !.objs[o].quota = FALSE]
        w2 == saveToFile(w1, o)
        tokenIndex == IndexOf(w2.tm.tokens, 0,
                              [p \in DOMAIN w.objs |-> RtOf(p) = RtOf(o)])
        w3 == IF tokenIndex # 0 - 1 THEN _removeQuotaIndex(w2, tokenIndex) ELSE w2
    IN IF w.tm.rotationStrategy = "quota_exhausted"
       THEN [w3 EXCEPT !.tm.currentIndex =
                           ModJS(AddJS(w3.tm.currentIndex, 1), Max(Len(w3.tm.tokens), 1))]
       ELSE w2

\* _resetAllQuotas that leaves the hasQuota flags as they are
_resetAllQuotas_keep(w) == _rebuildAvailableQuotaTokens(saveToFile(w, Undef))

_resetAllQuotas(w) ==
    LET inPool == {w.tm.tokens[k] : k \in 1..Len(w.tm.tokens)}
        w1 == [w EXCEPT !.objs = [p \in DOMAIN w.objs |->
                                    IF p \in inPool THEN [w.objs[p] EXCEPT !.quota = TRUE]
                                    ELSE w.objs[p]]]
    IN _rebuildAvailableQuotaTokens(saveToFile(w1, Undef))

isExpired(w, o) == w.objs[o].exp

\* disableCurrentToken(token): the pool entry is looked up by access_token
disableCurrentToken(w, o) ==
    LET pos == IndexOf(w.tm.tokens, 0,
                       [p \in DOMAIN w.objs |-> w.objs[p].at = w.objs[o].at])
    IN IF pos = 0 - 1 THEN w ELSE disableToken(w, TokenAt(w, pos))


\* The OAuth server issues an access_token it never issued before.  The file
\* starts with access_token rt for credential rt; the tokens issued to object
\* o are the numbers of a range of its own.
IssuedPerObject == NumCallers + 2
FirstIssued(o) == MaxTokens + 1 + (o[1] * MaxTokens + (o[2] - 1)) * IssuedPerObject
NewAccessToken(o, old) ==
    IF old >= FirstIssued(o) /\ old < FirstIssued(o) + IssuedPerObject
    THEN old + 1 ELSE FirstIssued(o)

\* refreshToken(token), the part after a successful OAuth response
refreshSuccess(w, o) ==
    saveToFile([w EXCEPT !.objs[o].at = NewAccessToken(o, @), !.objs[o].exp = FALSE], o)

\* ------------------------------------------------------------ TokenStore
FileRec(rt, at, exp, proj) ==
    [rt |-> rt, at |-> at, exp |-> exp, proj |-> proj, quota |-> TRUE, en |-> TRUE,
     sessionId |-> 0]

\* { ...a, ...b }
Spread(a, b) ==
    [f \in DOMAIN a \cup DOMAIN b |-> IF f \in DOMAIN b THEN b[f] ELSE a[f]]

\* {...allTokens[index], ...plain}: every field of the object but sessionId
Plain(rt, obj) ==
    [rt |-> rt, at |-> obj.at, exp |-> obj.exp, proj |-> obj.proj,
     quota |-> obj.quota, en |-> obj.en]

\* an update that leaves the record's enable flag as the file has it
applyUpdate_flag(all, heap, o) ==
    [k \in 1..Len(all) |->
        IF all[k].rt = RtOf(o)
        THEN Spread(all[k], [Plain(RtOf(o), heap[o]) EXCEPT !.en = all[k].en])
        ELSE all[k]]

\* applyUpdate(targetToken) of mergeActiveTokens
applyUpdate(all, heap, o) ==
    [k \in 1..Len(all) |->
        IF all[k].rt = RtOf(o) THEN Spread(all[k], Plain(RtOf(o), heap[o])) ELSE all[k]]

RECURSIVE applyAll(_, _, _)
applyAll(all, heap, arr) ==
    IF arr = <<>> THEN all
    ELSE applyAll(applyUpdate(all, heap, Head(arr)), heap, Tail(arr))

\* mergeActiveTokens(activeTokens, tokenToUpdate) up to its writeAll()
mergeActiveTokens(all, heap, job) ==
    IF job.one # Undef THEN applyUpdate(all, heap, job.one)
    ELSE applyAll(all, heap, job.arr)

\* ------------------------------------------------ getToken(): one caller
IdleCall ==
    [pc |-> "idle", task |-> 0, quota |-> FALSE, total |-> 0, start |-> 0,
     i |-> 0, idx |-> 0, tidx |-> 0, tok |-> Undef, prep |-> "none",
     pool |-> {}, cand |-> {}, tried |-> {}, failed |-> {}, exh |-> FALSE,
     ov |-> FALSE, dirty |-> FALSE, cb |-> 0]

InGetToken(L) == L.pc \in {"init", "refresh", "project", "resume"}

\* getToken() settles: res is "token", "fallback" (the token returned after the
\* quota loop ran out), "null" or "throw"
Handed(res) == res \in {"token", "fallback"}

Returned(w, L, res, o) ==
    [w |-> w, res |-> res,
     L |-> [L EXCEPT !.pc = IF Handed(res) THEN "using" ELSE "idle", !.tok = o]]

\* _prepareToken(token) from the projectId check to its next await
ProjectStart(w, L, cfg) ==
    IF w.objs[L.tok].proj
    THEN [w |-> w, res |-> "none", L |-> [L EXCEPT !.pc = "resume", !.prep = "ready"]]
    ELSE IF cfg.skipProjectIdFetch
    THEN [w |-> saveToFile([w EXCEPT !.objs[L.tok].proj = TRUE], L.tok),
          res |-> "none", L |-> [L EXCEPT !.pc = "resume", !.prep = "ready"]]
    ELSE [w |-> w, res |-> "none", L |-> [L EXCEPT !.pc = "project"]]

\* _prepareToken(token) from its start to its first await
PrepareStart(w, L, cfg) ==
    IF L.tok = Undef
    THEN [w |-> w, res |-> "none", L |-> [L EXCEPT !.pc = "resume", !.prep = "etype"]]
    ELSE LET L1 == [L EXCEPT !.tried = @ \cup {RtOf(L.tok)}]
         IN IF isExpired(w, L.tok)
            THEN [w |-> w, res |-> "none", L |-> [L1 EXCEPT !.pc = "refresh"]]
            ELSE ProjectStart(w, L1, cfg)

\* loop head that gives up one iteration early
DefaultIter_short(w, L, i, cfg) ==
    IF i >= L.total - 1 THEN Returned(w, L, "null", Undef)
    ELSE LET index == ModJS(AddJS(L.start, i), L.total)
         IN PrepareStart(w, [L EXCEPT !.i = i, !.idx = index, !.tidx = index,
                                      !.tok = TokenAt(w, index)], cfg)

\* head of the for loop of _getTokenForDefaultStrategy, iteration i
DefaultIter(w, L, i, cfg) ==
    IF i >= L.total THEN Returned(w, L, "null", Undef)
    ELSE LET index == ModJS(AddJS(L.start, i), L.total)
         IN PrepareStart(w, [L EXCEPT !.i = i, !.idx = index, !.tidx = index,
                                      !.tok = TokenAt(w, index)], cfg)

\* head of the for loop of _getTokenForQuotaExhaustedStrategy, iteration i
QuotaIter(w, L, i, cfg) ==
    IF i >= L.total
    THEN LET w1 == _resetAllQuotas(w)
         IN IF Len(w1.tm.tokens) = 0 THEN Returned(w1, L, "null", Undef)
            ELSE Returned(w1, L, "fallback", TokenAt(w1, 0))
    ELSE LET listIndex == (L.start + i) % L.total
             tokenIndex == QuotaIdxAt(w, listIndex)
         IN PrepareStart(w, [L EXCEPT !.i = i, !.idx = listIndex, !.tidx = tokenIndex,
                                      !.tok = TokenAt(w, tokenIndex)], cfg)

Iter(w, L, i, cfg) ==
    IF L.quota THEN QuotaIter(w, L, i, cfg) ELSE DefaultIter(w, L, i, cfg)

\* getToken() after `await this._ensureInitialized()`
Enter(w, L, cfg) ==
    IF Len(w.tm.tokens) = 0 THEN Returned(w, L, "null", Undef)
    ELSE IF w.tm.rotationStrategy = "quota_exhausted"
    THEN LET w1 == IF Len(w.tm.availableQuotaTokenIndices) = 0
                   THEN _resetAllQuotas(w) ELSE w
             totalAvailable == Len(w1.tm.availableQuotaTokenIndices)
             av == w1.tm.availableQuotaTokenIndices
             L1 == [L EXCEPT !.quota = TRUE, !.total = totalAvailable,
                             !.exh = Len(w.tm.availableQuotaTokenIndices) = 0,
                             !.cb = w.tm.currentQuotaIndex,
                             !.pool = RtsOf(w.tm.tokens),
                             !.cand = {RtOf(TokenAt(w1, av[k])) : k \in 1..Len(av)}]
         IN IF totalAvailable = 0 THEN Returned(w1, L1, "null", Undef)
            ELSE QuotaIter(w1, [L1 EXCEPT !.start = w1.tm.currentQuotaIndex % totalAvailable],
                           0, cfg)
    ELSE DefaultIter(w, [L EXCEPT !.quota = FALSE, !.total = Len(w.tm.tokens),
                                  !.start = w.tm.currentIndex, !.cb = w.tm.currentIndex,
                                  !.pool = RtsOf(w.tm.tokens),
                                  !.cand = RtsOf(w.tm.tokens)], 0, cfg)

\* _handleTokenError(error, token)
_handleTokenError(prep) == IF prep \in {"e400", "e403"} THEN "disable" ELSE "skip"

\* default loop that only skips a credential whose project-id fetch returned
\* no project id
DefaultResume_skip(w, L, cfg) ==
    CASE L.prep = "ready" ->
            LET w1 == [w EXCEPT !.tm.currentIndex = L.idx]
                sr == shouldRotate(w1, L.tok)
                w2 == IF sr.rot
                      THEN [sr.w EXCEPT !.tm.currentIndex =
                               ModJS(AddJS(@, 1), Len(sr.w.tm.tokens))]
                      ELSE sr.w
            IN Returned(w2, L, "token", L.tok)
      [] L.prep = "etype" -> Returned(w, L, "throw", Undef)
      [] L.prep \in {"e400", "e403"} ->
            LET w1 == disableToken(w, L.tok)
            IN IF Len(w1.tm.tokens) = 0 THEN Returned(w1, L, "null", Undef)
               ELSE DefaultIter(w1, L, L.i + 1, cfg)
      [] OTHER -> DefaultIter(w, L, L.i + 1, cfg)

\* body of the default loop after `await this._prepareToken(token)` settled
DefaultResume(w, L, cfg) ==
    CASE L.prep = "ready" ->
            LET w1 == [w EXCEPT !.tm.currentIndex = L.idx]
                sr == shouldRotate(w1, L.tok)
                w2 == IF sr.rot
                      THEN [sr.w EXCEPT !.tm.currentIndex =
                               ModJS(AddJS(@, 1), Len(sr.w.tm.tokens))]
                      ELSE sr.w
            IN Returned(w2, L, "token", L.tok)
      [] L.prep = "etype" -> Returned(w, L, "throw", Undef)
      [] L.prep = "disable" \/ (L.prep # "ready" /\ L.prep # "etype"
                                /\ _handleTokenError(L.prep) = "disable") ->
            LET w1 == disableToken(w, L.tok)
            IN IF Len(w1.tm.tokens) = 0 THEN Returned(w1, L, "null", Undef)
               ELSE DefaultIter(w1, L, L.i + 1, cfg)
      [] OTHER -> DefaultIter(w, L, L.i + 1, cfg)

\* quota strategy that moves currentQuotaIndex past the credential it returns
QuotaResume_advance(w, L, cfg) ==
    CASE L.prep = "ready" ->
            Returned([w EXCEPT !.tm.currentIndex = L.tidx,
                               !.tm.currentQuotaIndex = (L.idx + 1) % L.total],
                     L, "token", L.tok)
      [] L.prep = "etype" -> Returned(w, L, "throw", Undef)
      [] L.prep = "disable" \/ (L.prep # "ready" /\ L.prep # "etype"
                                /\ _handleTokenError(L.prep) = "disable") ->
            LET w1 == _rebuildAvailableQuotaTokens(disableToken(w, L.tok))
            IN IF Len(w1.tm.tokens) = 0 \/ Len(w1.tm.availableQuotaTokenIndices) = 0
               THEN Returned(w1, L, "null", Undef)
               ELSE QuotaIter(w1, L, L.i + 1, cfg)
      [] OTHER -> QuotaIter(w, L, L.i + 1, cfg)

\* body of the quota loop after `await this._prepareToken(token)` settled
QuotaResume(w, L, cfg) ==
    CASE L.prep = "ready" ->
            Returned([w EXCEPT !.tm.currentIndex = L.tidx,
                               !.tm.currentQuotaIndex = L.idx], L, "token", L.tok)
      [] L.prep = "etype" -> Returned(w, L, "throw", Undef)
      [] L.prep = "disable" \/ (L.prep # "ready" /\ L.prep # "etype"
                                /\ _handleTokenError(L.prep) = "disable") ->
            LET w1 == _rebuildAvailableQuotaTokens(disableToken(w, L.tok))
            IN IF Len(w1.tm.tokens) = 0 \/ Len(w1.tm.availableQuotaTokenIndices) = 0
               THEN Returned(w1, L, "null", Undef)
               ELSE QuotaIter(w1, L, L.i + 1, cfg)
      [] OTHER -> QuotaIter(w, L, L.i + 1, cfg)

Resume(w, L, cfg) ==
    IF L.quota THEN QuotaResume(w, L, cfg) ELSE DefaultResume(w, L, cfg)


\* --------------------------------------------------------------- initial
DEFAULT_REQUEST_COUNT_PER_TOKEN == 50

ObjRefs == Tasks \X Rts

Files ==
    UNION {[1..n -> {FileRec(0, 0, e, p) : e \in BOOLEAN, p \in BOOLEAN}] : n \in 1..MaxTokens}

Configs ==
    {[strategy |-> s, requestCount |-> n, skipProjectIdFetch |-> k] :
        s \in RotationStrategy, n \in 1..MaxCount, k \in BOOLEAN}

\* ev: the step just taken.  op names it, c the handler (or task), rt the
\* credential it was about, prep the _prepareToken result the loop body
\* handled, res how getToken() settled, next the credential the loop goes on
\* with, expect the one that follows rt in rotation order; pool, cand, tried
\* and failed are the pool and the call's candidates at its start, those it passed to
\* _prepareToken and those that failed there; exh: the call found every
\* credential exhausted; ov: it overlapped another call; clean: nothing
\* failed or interfered; marker: the 403 body held the context-length phrase;
\* was: rt was in the pool before the step.
NoEv == [op |-> "init", c |-> 0, rt |-> 0, prep |-> "none", res |-> "none",
         next |-> 0, expect |-> 0, pool |-> {}, cand |-> {}, tried |-> {}, failed |-> {},
         exh |-> FALSE, ov |-> FALSE, clean |-> FALSE, marker |-> FALSE,
         was |-> FALSE]

IdleTask == [pc |-> "new", exp |-> <<>>, pend |-> {}, dis |-> {}]

\* no with429Retry() call made yet
IdleRetry == [pc |-> "idle", maxRetries |-> 0, retries |-> 0, attempt |-> 0,
              calls |-> 0, seen |-> <<>>, err |-> 0 - 1]

\* no streamed response yet: the per-request state of generateAssistantResponse,
\* the callback invocations so far and what the handler wrote at the end
IdleStream == [pc |-> "idle", sessionId |-> 0, model |-> 0, toolCalls |-> <<>>,
               reasoningSignature |-> 0, nfc |-> 0, events |-> <<>>, nlines |-> 0,
               last |-> "none", finishes |-> 0, bad |-> 0, closed |-> "no"]

\* thoughtSignatureCache.ts: the two Maps in insertion order, and Date.now()
EmptyCache == [now |-> 0, reasoning |-> <<>>, tool |-> <<>>]

MaxSessions == 2   \* credentials in the pool, each with its token.sessionId
MaxModels == 1     \* model names requested
MaxConvs == 2      \* conversations (clients) sending requests
Sessions == 1..MaxSessions
Models == 1..MaxModels
Convs == 1..MaxConvs
Keys == Sessions \X Models

\* nothing stored yet under a key: signature, time, conversation that streamed
\* it, and whether the entry is still in the Map
NoWrite == [sig |-> 0, ts |-> 0, conv |-> 0, kept |-> FALSE]

\* no request converted yet
IdleReq == [pc |-> "idle", n |-> 0, conv |-> 0, sessionId |-> 0, model |-> 0,
            at |-> 0, used |-> 0, from |-> 0, prev |-> NoWrite,
            wrote |-> [k \in Keys |-> NoWrite]]

\* null where a tool name is expected
NoName == <<"null">>

\* the tool-name cache of a fresh process: nothing recorded, nothing looked up
IdleNames == [now |-> 0, map |-> <<>>, n |-> 0, step |-> "idle",
              rec |-> [sessionId |-> 0, model |-> 0, name |-> <<>>, safe |-> <<>>,
                       recorded |-> FALSE],
              look |-> [sessionId |-> 0, model |-> 0, safe |-> <<>>, res |-> NoName,
                        direct |-> FALSE]]

\* no converter call made
IdleConv == [op |-> "idle"]

\* no admin call in progress
IdleAdmin == [pc |-> "idle", op |-> "none", rt |-> 0, updates |-> <<>>, content |-> <<>>]

\* the state after `new TokenManager()`; the file holds what an operator put there
InitCore ==
    /\ config \in {g \in Configs : g.strategy = "request_count" \/ g.requestCount = MaxCount}
    /\ tm = [tokens |-> <<>>, currentIndex |-> 0,
             rotationStrategy |-> "round_robin",
             requestCountPerToken |-> DEFAULT_REQUEST_COUNT_PER_TOKEN,
             tokenRequestCounts |-> [r \in Rts |-> 0],
             availableQuotaTokenIndices |-> <<>>, currentQuotaIndex |-> 0,
             _initPromise |-> NoIdx]
    /\ objs = [p \in ObjRefs |-> BlankObj]
    /\ file \in {[k \in DOMAIN f |-> [f[k] EXCEPT !.rt = k, !.at = k]] : f \in Files}
    /\ jobs = {}
    /\ tasks = [t \in Tasks |-> IdleTask]
    /\ calls = [c \in Callers |-> IdleCall]
    /\ ncalls = 0
    /\ hist = <<>>
    /\ fresh = TRUE
    /\ ev = NoEv
    /\ retry = IdleRetry
    /\ strm = IdleStream
    /\ req = IdleReq

Init ==
    /\ InitCore
    /\ cache = EmptyCache /\ names = IdleNames /\ cvt = IdleConv /\ admin = IdleAdmin

\* objects nothing refers to any more are garbage: the heap forgets them
Live(toks, js, cs, ts) ==
    {toks[k] : k \in 1..Len(toks)}
    \cup UNION {{j.arr[k] : k \in 1..Len(j.arr)} \cup {j.one} : j \in js}
    \cup {cs[c].tok : c \in Callers}
    \cup UNION {{ts[t].exp[k] : k \in 1..Len(ts[t].exp)} : t \in Tasks}

Sweep(heap, live) == [p \in ObjRefs |-> IF p \in live THEN heap[p] ELSE BlankObj]

\* install the state a method left; calls' and tasks' are set by the action
Put(w) ==
    /\ tm' = w.tm
    /\ jobs' = w.jobs
    /\ objs' = Sweep(w.objs, Live(w.tm.tokens, w.jobs, calls', tasks'))

\* ----------------------------------------------------- TokenStore: steps
\* mergeActiveTokens after `await this.readAll()`: merge, then start writeAll
JobRead(j) ==
    /\ j \in jobs /\ j.phase = "read"
    /\ UNCHANGED <<xvars, config, file, tasks, calls, ncalls, hist, fresh>>
    /\ Put([World EXCEPT !.jobs = (jobs \ {j}) \cup
               {[arr |-> <<>>, one |-> Undef, phase |-> "write",
                 content |-> mergeActiveTokens(file, objs, j), dis |-> j.dis]}])
    /\ ev' = [NoEv EXCEPT !.op = "jobRead"]

\* writeAll: fs.writeFile succeeded
JobWrite(j) ==
    /\ j \in jobs /\ j.phase = "write"
    /\ file' = j.content
    /\ jobs' = jobs \ {j}
    /\ ev' = [NoEv EXCEPT !.op = "jobWrite"]
    /\ UNCHANGED <<xvars, config, tm, objs, tasks, calls, ncalls, hist, fresh>>

\* writeAll: fs.writeFile failed; saveToFile logs the error and drops it
JobFail(j) ==
    /\ j \in jobs /\ j.phase = "write"
    /\ jobs' = jobs \ {j}
    /\ ev' = [NoEv EXCEPT !.op = "jobFail"]
    /\ UNCHANGED <<xvars, config, tm, objs, file, tasks, calls, ncalls, hist, fresh>>

\* ------------------------------------------------- _initialize(): steps
Disturb(cs) == [c \in Callers |->
                   IF InGetToken(cs[c]) THEN [cs[c] EXCEPT !.dirty = TRUE] ELSE cs[c]]

loadRotationConfig(w) ==
    [w EXCEPT !.tm.rotationStrategy = config.strategy,
              !.tm.requestCountPerToken = config.requestCount]

\* _initialize() after `await this.store.readAll()`, up to the next await
TaskRead(t) ==
    /\ tasks[t].pc = "read"
    /\ LET recs == Filter(file, [r \in {file[k] : k \in 1..Len(file)} |-> r.en])
           toks == [k \in 1..Len(recs) |-> <<t, recs[k].rt>>]
           heap == [p \in ObjRefs |->
                      IF \E k \in 1..Len(recs) : p = <<t, recs[k].rt>>
                      THEN LET r == recs[CHOOSE k \in 1..Len(recs) : p = <<t, recs[k].rt>>]
                           IN [at |-> r.at, exp |-> r.exp, proj |-> r.proj,
                               quota |-> r.quota, en |-> r.en,
                               sessionId |-> generateSessionId]
                      ELSE objs[p]]
           w1 == [World EXCEPT !.objs = heap, !.tm.tokens = toks, !.tm.currentIndex = 0,
                               !.tm.tokenRequestCounts = [r \in Rts |-> 0]]
           w2 == loadRotationConfig(_rebuildAvailableQuotaTokens(w1))
           expiredTokens == Filter(toks, [p \in ObjRefs |-> heap[p].exp])
       IN /\ tasks' = [tasks EXCEPT ![t] =
                IF expiredTokens = <<>> THEN [IdleTask EXCEPT !.pc = "done"]
                ELSE [pc |-> "refresh", exp |-> expiredTokens,
                      pend |-> {expiredTokens[k] : k \in 1..Len(expiredTokens)},
                      dis |-> {}]]
          /\ calls' = IF t = 0 THEN calls ELSE Disturb(calls)
          /\ Put(w2)
    /\ hist' = IF t = 0 THEN hist ELSE <<>>
    /\ fresh' = IF t = 0 THEN fresh ELSE FALSE
    /\ ev' = [NoEv EXCEPT !.op = "taskRead", !.c = t]
    /\ UNCHANGED <<xvars, config, file, ncalls>>

RefreshOutcomes == {"ok", "e400", "e403", "e500"}

\* one _refreshTokenSafe(token) of the concurrent refresh settles
TaskRefreshSettle(t, o, r) ==
    /\ tasks[t].pc = "refresh" /\ o \in tasks[t].pend
    /\ tasks' = [tasks EXCEPT ![t].pend = @ \ {o},
                              ![t].dis = IF r \in {"e400", "e403"} THEN @ \cup {o} ELSE @]
    /\ UNCHANGED calls
    /\ Put(IF r = "ok" THEN refreshSuccess(World, o) ELSE World)
    /\ ev' = [NoEv EXCEPT !.op = "taskRefresh", !.c = t, !.rt = RtOf(o)]
    /\ UNCHANGED <<xvars, config, file, ncalls, hist, fresh>>

RECURSIVE disableEach(_, _, _)
disableEach(w, arr, dis) ==
    IF arr = <<>> THEN w
    ELSE disableEach(IF Head(arr) \in dis THEN disableToken(w, Head(arr)) ELSE w,
                     Tail(arr), dis)

\* _refreshExpiredTokensConcurrently after Promise.allSettled: batch disable
TaskFinish(t) ==
    /\ tasks[t].pc = "refresh" /\ tasks[t].pend = {}
    /\ tasks' = [tasks EXCEPT ![t] = [IdleTask EXCEPT !.pc = "done"]]
    /\ ev' = [NoEv EXCEPT !.op = "taskFinish", !.c = t]
    /\ calls' = IF tasks[t].dis = {} \/ t = 0 THEN calls ELSE Disturb(calls)
    /\ Put(disableEach(World, tasks[t].exp, tasks[t].dis))
    /\ hist' = IF tasks[t].dis = {} \/ t = 0 THEN hist ELSE <<>>
    /\ fresh' = IF tasks[t].dis = {} \/ t = 0 THEN fresh ELSE FALSE
    /\ UNCHANGED <<xvars, config, file, ncalls>>

\* reload(): a new _initialize() replaces _initPromise
Reload ==
    /\ \E t \in Tasks \ {0} :
          /\ tasks[t].pc = "new"
          /\ \A u \in Tasks \ {0} : u < t => tasks[u].pc # "new"
          /\ tasks' = [tasks EXCEPT ![t].pc = "read"]
          /\ tm' = [tm EXCEPT !._initPromise = t]
          /\ ev' = [NoEv EXCEPT !.op = "reload", !.c = t]
    /\ calls' = Disturb(calls)
    /\ hist' = <<>>
    /\ fresh' = FALSE
    /\ UNCHANGED <<xvars, config, objs, file, jobs, ncalls>>


\* ---------------------------------------------------- getToken(): steps
Count(w, o) == IF o = Undef THEN 0 ELSE w.tm.tokenRequestCounts[RtOf(o)]

Cursor(w, L) == IF L.quota THEN w.tm.currentQuotaIndex ELSE w.tm.currentIndex

\* the candidate that follows the one just tried, in rotation order
Successor(w, L) ==
    IF L.i + 1 >= L.total THEN 0
    ELSE IF L.quota
    THEN RtOf(TokenAt(w, QuotaIdxAt(w, (L.start + L.i + 1) % L.total)))
    ELSE RtOf(TokenAt(w, ModJS(AddJS(L.start, L.i + 1), L.total)))

\* record a step r of caller c's getToken(): its state and what it did
Commit(c, op, r, old) ==
    LET L == r.L
        ret == r.res # "none"
        clean == r.res = "token" /\ ~L.dirty /\ ~L.ov
        o == IF Handed(r.res) THEN L.tok ELSE Undef
    IN /\ calls' = [calls EXCEPT ![c] =
              IF ret THEN [IdleCall EXCEPT !.pc = L.pc, !.tok = o] ELSE L]
       /\ UNCHANGED tasks
       /\ Put(r.w)
       /\ hist' = IF L.dirty \/ L.ov \/ (ret /\ ~clean) THEN <<>>
                  ELSE IF ret
                  THEN Append(hist, [rt |-> RtOf(o), cb |-> L.cb, ca |-> Cursor(r.w, L),
                                     cnt |-> Count(r.w, o)])
                  ELSE hist
       /\ fresh' = IF L.dirty \/ L.ov \/ (ret /\ ~clean) THEN FALSE ELSE fresh
       /\ ev' = [NoEv EXCEPT !.op = op, !.c = c, !.rt = RtOf(old.tok),
                 !.prep = IF op = "resume" THEN old.prep ELSE L.prep,
                 !.res = r.res,
                 !.next = IF ret THEN 0 ELSE RtOf(L.tok),
                 !.expect = IF op = "resume" THEN Successor(World, old) ELSE 0,
                 !.pool = L.pool, !.cand = L.cand, !.tried = L.tried, !.failed = L.failed,
                 !.exh = L.exh, !.ov = L.ov, !.clean = ~L.dirty /\ ~L.ov,
                 !.was = RtOf(old.tok) \in RtsOf(tm.tokens)]

\* the _initialize() call that a `this._initialize()` expression would start
NewTask ==
    IF \E t \in Tasks : tasks[t].pc = "new"
    THEN CHOOSE t \in Tasks : tasks[t].pc = "new" /\ \A u \in Tasks : u < t => tasks[u].pc # "new"
    ELSE NoIdx

\* an initialization guard that does not look at the memoized task
_ensureInitialized_again(w, t) ==
    IF t # NoIdx THEN t ELSE w.tm._initPromise

\* _ensureInitialized(): the task the caller awaits
_ensureInitialized(w, t) ==
    IF w.tm._initPromise = NoIdx THEN t ELSE w.tm._initPromise

\* getToken() up to `await this._ensureInitialized()`
GetTokenCall(c, limit) ==
    /\ calls[c].pc = "idle"
    /\ ncalls < limit
    /\ ncalls' = ncalls + 1
    /\ LET p == _ensureInitialized(World, NewTask)
           first == tasks[p].pc = "new"
           overlap == \E d \in Callers \ {c} : InGetToken(calls[d])
       IN /\ tm' = [tm EXCEPT !._initPromise = p]
          /\ tasks' = IF first THEN [tasks EXCEPT ![0].pc = "read"] ELSE tasks
          /\ calls' = [[d \in Callers |->
                           IF InGetToken(calls[d]) THEN [calls[d] EXCEPT !.ov = TRUE]
                           ELSE calls[d]]
                        EXCEPT ![c] = [IdleCall EXCEPT !.pc = "init", !.task = p,
                                                       !.ov = overlap]]
          /\ hist' = IF overlap THEN <<>> ELSE hist
          /\ fresh' = IF overlap THEN FALSE ELSE fresh
    /\ ev' = [NoEv EXCEPT !.op = "call", !.c = c]
    /\ UNCHANGED <<xvars, config, objs, file, jobs>>

\* getToken() from the end of initialization to the first await of the loop
GetTokenEnter(c) ==
    /\ calls[c].pc = "init"
    /\ tasks[calls[c].task].pc = "done"
    /\ Commit(c, "enter", Enter(World, calls[c], config), calls[c])
    /\ UNCHANGED <<xvars, config, file, ncalls>>

\* refreshToken(token) inside _prepareToken: the OAuth request settles
RefreshDone(c, r) ==
    /\ calls[c].pc = "refresh"
    /\ LET L == calls[c]
       IN Commit(c, "refresh",
                 IF r = "ok" THEN ProjectStart(refreshSuccess(World, L.tok), L, config)
                 ELSE [w |-> World, res |-> "none",
                       L |-> [L EXCEPT !.pc = "resume", !.prep = r, !.dirty = TRUE,
                                       !.failed = @ \cup {RtOf(L.tok)}]],
                 L)
    /\ UNCHANGED <<xvars, config, file, ncalls>>

ProjectOutcomes == {"ok", "none", "efetch"}

\* fetchProjectId(token) inside _prepareToken: the request settles
ProjectDone(c, r) ==
    /\ calls[c].pc = "project"
    /\ LET L == calls[c]
       IN Commit(c, "project",
                 CASE r = "ok" ->
                        [w |-> saveToFile([World EXCEPT !.objs[L.tok].proj = TRUE], L.tok),
                         res |-> "none", L |-> [L EXCEPT !.pc = "resume", !.prep = "ready"]]
                   [] r = "none" ->
                        [w |-> World, res |-> "none",
                         L |-> [L EXCEPT !.pc = "resume", !.prep = "disable", !.dirty = TRUE,
                                         !.failed = @ \cup {RtOf(L.tok)}]]
                   [] OTHER ->
                        [w |-> World, res |-> "none",
                         L |-> [L EXCEPT !.pc = "resume", !.prep = "efetch", !.dirty = TRUE,
                                         !.failed = @ \cup {RtOf(L.tok)}]],
                 L)
    /\ UNCHANGED <<xvars, config, file, ncalls>>

\* the loop body after `await this._prepareToken(token)`, up to the next await
GetTokenResume(c) ==
    /\ calls[c].pc = "resume"
    /\ LET L == [calls[c] EXCEPT !.dirty = @ \/ calls[c].prep # "ready"]
       IN Commit(c, "resume", Resume(World, L, config), L)
    /\ UNCHANGED <<xvars, config, file, ncalls>>

\* ------------------------------------------- the request that got a token
EndRequest(c, op, w, o, marker, disturbs) ==
    /\ calls' = [(IF disturbs THEN Disturb(calls) ELSE calls) EXCEPT ![c] = IdleCall]
    /\ UNCHANGED tasks
    /\ Put(w)
    /\ hist' = IF disturbs THEN <<>> ELSE hist
    /\ fresh' = IF disturbs THEN FALSE ELSE fresh
    /\ ev' = [NoEv EXCEPT !.op = op, !.c = c, !.rt = RtOf(o), !.marker = marker,
                          !.was = RtOf(o) \in RtsOf(tm.tokens),
                          !.res = IF op = "forbidden" THEN "throw" ELSE "none"]
    /\ UNCHANGED <<xvars, config, file, ncalls>>

\* the upstream call succeeded or failed with a status other than 403
RequestDone(c) ==
    /\ calls[c].pc = "using"
    /\ EndRequest(c, "done", World, calls[c].tok, FALSE, FALSE)

\* handleApiError(error, token) with status 403; marker: the body contains
\* "The caller does not"
handleApiError403(w, o, marker) ==
    IF marker THEN w ELSE disableCurrentToken(w, o)

RequestForbidden(c, marker) ==
    /\ calls[c].pc = "using"
    /\ EndRequest(c, "forbidden", handleApiError403(World, calls[c].tok, marker),
                  calls[c].tok, marker, ~marker)

\* markQuotaExhausted(token) on the token the request was handed
RequestQuotaExhausted(c) ==
    /\ calls[c].pc = "using"
    /\ EndRequest(c, "mark", markQuotaExhausted(World, calls[c].tok),
                  calls[c].tok, FALSE, TRUE)

\* ------------------------------------------------------- specifications
StoreStep == \E j \in jobs : JobRead(j) \/ JobWrite(j) \/ JobFail(j)

TaskStep ==
    \E t \in Tasks :
        \/ TaskRead(t)
        \/ \E o \in ObjRefs, r \in RefreshOutcomes : TaskRefreshSettle(t, o, r)
        \/ TaskFinish(t)

CallerStep(c, limit) ==
    \/ GetTokenCall(c, limit)
    \/ GetTokenEnter(c)
    \/ \E r \in RefreshOutcomes : RefreshDone(c, r)
    \/ \E r \in ProjectOutcomes : ProjectDone(c, r)
    \/ GetTokenResume(c)
    \/ RequestDone(c)
    \/ \E m \in BOOLEAN : RequestForbidden(c, m)
    \/ RequestQuotaExhausted(c)

\* One request handler at a time, the persistence writes still pending: the
\* sequential scenarios of the rotation.
NextSeq == TaskStep \/ CallerStep(1, MaxCalls)

SpecSeq == Init /\ [][NextSeq]_vars

\* Request handlers in flight together.
NextConc == TaskStep \/ \E c \in Callers : CallerStep(c, MaxConcCalls)

SpecConc == Init /\ [][NextConc]_vars

\* A request handler, the persistence writes and hot reloads; a reload is
\* requested while no initialization and no getToken() is running, and
\* skipProjectIdFetch has its default.
Settled == \A u \in Tasks : tasks[u].pc \in {"new", "done"}
Quiet == \A c \in Callers : ~InGetToken(calls[c])

InitDefault == Init /\ ~config.skipProjectIdFetch

Next == StoreStep \/ TaskStep \/ (Settled /\ Quiet /\ Reload)
        \/ CallerStep(1, MaxReloadCalls)

Spec == InitDefault /\ [][Next]_vars

TypeOK ==
    /\ tm.currentIndex \in {NaN} \cup (0..MaxTokens)
    /\ Len(tm.tokens) <= MaxTokens
    /\ Cardinality(jobs) <= MaxJobs
    /\ ncalls <= MaxCalls


\* ================================================================ claims
InPool(rt) == rt \in RtsOf(tm.tokens)
Settles == ev.op \in {"enter", "refresh", "project", "resume"} /\ ev.res # "none"
Other(c) == CHOOSE d \in Callers : d # c

\* C1 (as claimed): a getToken() call that no other task interferes with
\* throws, returns null or falls back to the all-quota reset only after every
\* credential that was a candidate at its start has been passed to
\* _prepareToken.
C1_FailureIsolation ==
    (Settles /\ ev.res \in {"null", "throw", "fallback"}) => ev.cand \subseteq ev.tried

\* C2: under round_robin, N undisturbed sequential calls on a pool of N
\* credentials return the credentials in list order starting at the cursor,
\* each once, and leave the cursor where it started.
C2_RotationFairness ==
    LET n == Len(tm.tokens)
        first == Len(hist) - n + 1
    IN (tm.rotationStrategy = "round_robin" /\ n >= 1 /\ Len(hist) >= n) =>
          /\ \A m \in 0..(n - 1) :
                hist[first + m].rt = RtOf(tm.tokens[((hist[first].cb + m) % n) + 1])
          /\ hist[Len(hist)].ca = hist[first].cb

C2_Witness ==
    /\ tm.rotationStrategy = "round_robin"
    /\ Len(tm.tokens) >= 2
    /\ Len(hist) > Len(tm.tokens)
    /\ hist[Len(hist) - Len(tm.tokens) + 1].cb # 0

\* the file lists only ready credentials: unexpired, projectId set
ReadyPool == \A k \in DOMAIN file : ~file[k].exp /\ file[k].proj

\* C3 (as claimed): under round_robin with at least two ready credentials,
\* the first two getToken() calls, in flight at the same time, are handed two
\* different credentials and leave the cursor advanced by two positions.
C3_ConcurrentHandouts ==
    (/\ ev.op = "resume" /\ ev.res = "token" /\ ev.ov
     /\ ncalls = 2
     /\ tm.rotationStrategy = "round_robin"
     /\ ReadyPool /\ Len(tm.tokens) >= 2
     /\ calls[Other(ev.c)].pc = "using")
    => /\ calls[ev.c].tok # calls[Other(ev.c)].tok
       /\ tm.currentIndex = 2 % Len(tm.tokens)

\* C4 (as claimed): getToken() returns null only when the pool is empty.
C4_NullOnlyWhenEmpty ==
    (Settles /\ ev.res = "null") => Len(tm.tokens) = 0

\* C4 (amended): getToken() returns null only when the pool is empty or when
\* the call passed at least one credential to _prepareToken and every
\* credential it passed failed there (was skipped or disabled).
C4_NullOnlyAfterFailures ==
    (Settles /\ ev.res = "null") =>
        \/ Len(tm.tokens) = 0
        \/ (ev.tried # {} /\ ev.tried \subseteq ev.failed)

C4_Witness ==
    Settles /\ ev.res = "null" /\ Len(tm.tokens) > 0 /\ ev.tried # {}

\* C5 (as claimed): whenever the pool is non-empty the round-robin cursor is
\* a position of it.
C5_CursorValid ==
    Len(tm.tokens) > 0 => (tm.currentIndex >= 0 /\ tm.currentIndex < Len(tm.tokens))

C7_QuotaRoundRobin ==
    (/\ tm.rotationStrategy = "quota_exhausted"
     /\ Len(tm.availableQuotaTokenIndices) >= 2
     /\ Len(hist) >= 2)
    => hist[Len(hist)].rt # hist[Len(hist) - 1].rt

\* C7 (amended): under quota_exhausted, undisturbed successive calls return
\* the same credential, the one at currentQuotaIndex.
C7_QuotaSticky ==
    tm.rotationStrategy = "quota_exhausted" =>
        \A k \in 1..Len(hist) :
            /\ hist[k].rt = hist[1].rt
            /\ (hist[k].ca = hist[k].cb \/ k = 1)
            /\ Len(tm.availableQuotaTokenIndices) > hist[k].ca
            /\ hist[k].rt =
                  RtOf(tm.tokens[tm.availableQuotaTokenIndices[hist[k].ca + 1] + 1])

C7_Witness ==
    /\ tm.rotationStrategy = "quota_exhausted"
    /\ Len(tm.availableQuotaTokenIndices) >= 2
    /\ Len(hist) >= 2

\* C8: under request_count with threshold N, the j-th of the undisturbed calls
\* since initialization returns credential ((j-1) div N) mod n of the n in the
\* pool, leaves its counter at j mod N (0 right after a rotation) and the
\* cursor at (j div N) mod n.
C8_RequestCount ==
    LET n == Len(tm.tokens)
        N == tm.requestCountPerToken
    IN (tm.rotationStrategy = "request_count" /\ fresh /\ n >= 1) =>
          \A j \in 1..Len(hist) :
              /\ hist[j].rt = RtOf(tm.tokens[(((j - 1) \div N) % n) + 1])
              /\ hist[j].cnt = j % N
              /\ hist[j].ca = (j \div N) % n

C8_Witness ==
    /\ tm.rotationStrategy = "request_count" /\ fresh
    /\ tm.requestCountPerToken = 2
    /\ Len(tm.tokens) >= 2
    /\ Len(hist) = 3

\* C9 (as claimed): a refresh that fails with 400 or 403 disables the
\* credential and removes it from the pool, one that fails otherwise leaves it
\* enabled and in the pool; either way the call goes on with the candidate
\* that follows in rotation order.
C9_RefreshFailure ==
    (ev.op = "resume" /\ ev.prep \in {"e400", "e403", "e500"}) =>
        /\ ev.prep \in {"e400", "e403"} => ~InPool(ev.rt)
        /\ ev.prep = "e500" => InPool(ev.rt)
        /\ ev.next = ev.expect

\* C10 (as claimed): a 403 whose body holds the context-length phrase leaves
\* the credential in the pool; any other 403 removes the credential that made
\* the call from the pool; the error is raised to the caller either way.
C10_Forbidden ==
    ev.op = "forbidden" =>
        /\ ev.marker => (InPool(ev.rt) <=> ev.was)
        /\ ~ev.marker => ~InPool(ev.rt)
        /\ ev.res = "throw"


\* ================================================= the request path: retries
MaxRetries == 5      \* largest configured retryTimes

\* status of an upstream answer: 200 is success, NoStatus an error object
\* without status, statusCode or response (Number(undefined) is NaN)
NoStatus == 0
NoErr == 0 - 1
Statuses == {200, 400, 403, 429, 500, NoStatus}

\* config.retryTimes as the handlers read it
RetryTimes == (0 - 1)..MaxRetries

\* the handlers' `maxRetries > 0 ? Math.floor(maxRetries) : 0`
safeRetries(retryTimes) == IF retryTimes > 0 THEN retryTimes ELSE 0

\* with429Retry: `retries`
retries(maxRetries) == IF maxRetries > 0 THEN maxRetries ELSE 0

\* with429Retry from its start to the first `await fn(attempt)`
with429Enter(maxRetries) ==
    [pc |-> "calling", maxRetries |-> maxRetries, retries |-> retries(maxRetries),
     attempt |-> 0, calls |-> 1, seen |-> <<>>, err |-> NoErr]

\* retry loop that allows one retry more than `retries`
with429Settle_extra(st, status) ==
    LET st1 == [st EXCEPT !.seen = Append(@, status)]
    IN IF status = 200 THEN [st1 EXCEPT !.pc = "returned"]
       ELSE IF status = 429 /\ st.attempt <= st.retries
       THEN [st1 EXCEPT !.attempt = @ + 1, !.calls = @ + 1]
       ELSE [st1 EXCEPT !.pc = "thrown", !.err = status]

\* with429Retry after `await fn(attempt)` settled, up to the next await or
\* to its end: the catch block, and the next fn(attempt) when it continues
with429Settle(st, status) ==
    LET st1 == [st EXCEPT !.seen = Append(@, status)]
    IN IF status = 200 THEN [st1 EXCEPT !.pc = "returned"]
       ELSE IF status = 429 /\ st.attempt < st.retries
       THEN [st1 EXCEPT !.attempt = @ + 1, !.calls = @ + 1]
       ELSE [st1 EXCEPT !.pc = "thrown", !.err = status]

\* a handler calls with429Retry(fn, safeRetries)
With429Start(k) ==
    /\ retry.pc = "idle"
    /\ retry' = with429Enter(safeRetries(k))
    /\ UNCHANGED <<tmvars, pvars, strm, cache, req>>

\* the upstream call of the current attempt settles
With429FnSettles(status) ==
    /\ retry.pc = "calling"
    /\ retry' = with429Settle(retry, status)
    /\ UNCHANGED <<tmvars, pvars, strm, cache, req>>

\* the pool is not involved: one fixed configuration and file
ParkedTM ==
    /\ config = [strategy |-> "round_robin", requestCount |-> MaxCount,
                 skipProjectIdFetch |-> FALSE]
    /\ file = <<FileRec(1, 1, FALSE, TRUE)>>

InitRetry == Init /\ ParkedTM

NextRetry ==
    \/ \E k \in RetryTimes : With429Start(k)
    \/ \E status \in Statuses : With429FnSettles(status)

\* every upstream call settles
SpecRetry == InitRetry /\ [][NextRetry]_vars /\ WF_vars(NextRetry)

RetryDone == retry.pc \in {"returned", "thrown"}

\* what holds of a with429Retry call at every moment
RetryInv ==
    retry.pc # "idle" =>
        /\ retry.calls <= retry.maxRetries + 1
        /\ retry.calls = retry.attempt + 1
        /\ retry.attempt <= retry.retries
        /\ \A i \in 1..Len(retry.seen) :
              i < retry.calls => retry.seen[i] = 429
        /\ Len(retry.seen) = IF RetryDone THEN retry.calls ELSE retry.calls - 1
        /\ (Len(retry.seen) >= 1 /\ retry.seen[1] \notin {200, 429}) =>
              (retry.pc = "thrown" /\ retry.calls = 1 /\ retry.err = retry.seen[1])
        /\ (retry.pc = "thrown" /\ retry.err = 429) =>
              (retry.attempt = retry.retries /\ retry.seen[retry.calls] = 429)
        /\ retry.pc = "thrown" => retry.err = retry.seen[retry.calls]

\* C11: with429Retry invokes the upstream call at most maxRetries+1 times,
\* re-invokes it (in the same step, without a sleep) only after a 429 and
\* while fewer than maxRetries retries were made, propagates any other
\* failure right after the invocation that produced it (after exactly one
\* invocation when it is the first), propagates the last 429 once the
\* retries are used up, and always terminates when every upstream call
\* settles.
C11_BoundedRetry == []RetryInv /\ <>RetryDone

C11_Witness ==
    /\ retry.pc = "thrown" /\ retry.err = 429
    /\ retry.maxRetries >= 2 /\ retry.calls = retry.maxRetries + 1

\* ------------------------------------------------- concurrent first callers
Loads == {t \in Tasks : tasks[t].pc # "new"}

\* C12: whatever number of getToken() callers arrive before initialization
\* has completed, the pool is read from the store by exactly one
\* _initialize() call, every caller that waits for initialization waits for
\* that memoized call, and a caller is past its wait only when no
\* initialization is in flight.
C12_SingleInit ==
    /\ Cardinality(Loads) = IF ncalls > 0 THEN 1 ELSE 0
    /\ \A c \in Callers :
          calls[c].pc = "init" => (calls[c].task = tm._initPromise /\ calls[c].task \in Loads)
    /\ \A c \in Callers :
          (InGetToken(calls[c]) /\ calls[c].pc # "init") => Settled

C12_Witness ==
    /\ \A c \in Callers : calls[c].pc = "init"
    /\ tasks[tm._initPromise].pc = "refresh"
    /\ Len(tm.tokens) = MaxTokens

\* ---------------------------------------------- markQuotaExhausted: frame
\* position of credential rt in this.tokens, NoIdx when it is not there
PosOf(toks, rt) == IndexOf(toks, 0, [p \in ObjRefs |-> RtOf(p) = rt])

\* the step from the current state to the next is markQuotaExhausted(o) of
\* caller c's credential
MarkedStep(c, o) ==
    LET av == tm.availableQuotaTokenIndices
        at == PosOf(tm.tokens, RtOf(o))
        keep == [x \in 0..MaxTokens |-> x # at]
    IN /\ (\E k \in 1..Len(tm'.tokens) : tm'.tokens[k] = o) => ~objs'[o].quota
       /\ Cardinality(jobs) < MaxJobs =>
             (\E j \in jobs' : j.one = o /\ j.phase = "read" /\ ~objs'[o].quota)
       /\ tm'.tokens = tm.tokens
       /\ tm'.tokenRequestCounts = tm.tokenRequestCounts
       /\ IF tm.rotationStrategy = "quota_exhausted"
          THEN /\ tm'.availableQuotaTokenIndices = Filter(av, keep)
               /\ tm'.currentIndex =
                     ModJS(AddJS(tm.currentIndex, 1), Max(Len(tm.tokens), 1))
          ELSE /\ tm'.availableQuotaTokenIndices = av
               /\ tm'.currentQuotaIndex = tm.currentQuotaIndex
               /\ tm'.currentIndex = tm.currentIndex

\* C15: markQuotaExhausted(t) sets t.hasQuota to false and starts a write of
\* t under every strategy; under quota_exhausted it takes t's position out of
\* the filtered index and moves the cursor one ahead (modulo the pool size);
\* under round_robin and request_count the filtered index, its cursor and
\* the round-robin cursor stay as they were.
C15_MarkQuotaFrame ==
    [][\A c \in Callers :
          (ev'.op = "mark" /\ ev'.c = c) => MarkedStep(c, calls[c].tok)]_vars

C15_Witness ==
    /\ ev.op = "mark"
    /\ tm.rotationStrategy = "round_robin"
    /\ Len(tm.tokens) = MaxTokens
    /\ Len(tm.availableQuotaTokenIndices) = MaxTokens
    /\ \E j \in jobs : j.one # Undef /\ RtOf(j.one) = ev.rt /\ ~objs[j.one].quota

\* ------------------------------------------------------------ disableToken
\* the pool entry disableCurrentToken(o) passes to disableToken, Undef if none
FoundByAccessToken(o) ==
    TokenAt(World, IndexOf(tm.tokens, 0, [p \in ObjRefs |-> objs[p].at = objs[o].at]))

\* the step from the current state to the next is disableToken(d)
DisabledStep(d) ==
    LET toks == Filter(tm.tokens, [p \in ObjRefs |-> RtOf(p) # RtOf(d)])
        av == tm'.availableQuotaTokenIndices
    IN /\ Cardinality(jobs) < MaxJobs =>
             (\E j \in jobs' :
                  /\ j.phase = "read" /\ j.one = Undef /\ j.arr = tm.tokens
                  /\ RtOf(d) \in j.dis
                  /\ ~objs'[d].en)
       /\ tm'.tokens = toks
       /\ RtOf(d) \notin RtsOf(tm'.tokens)
       /\ tm'.currentIndex = ModJS(tm.currentIndex, Max(Len(toks), 1))
       /\ (tm.currentIndex # NaN) => tm'.currentIndex < Max(Len(toks), 1)
       /\ \A i \in 0..(Len(toks) - 1) :
             (\E k \in 1..Len(av) : av[k] = i) <=>
                 (objs'[toks[i + 1]].en /\ objs'[toks[i + 1]].quota)
       /\ \A k \in 1..Len(av) : av[k] < Len(toks) /\ (k > 1 => av[k - 1] < av[k])
       /\ tm'.currentQuotaIndex < Max(Len(av), 1)

\* the step from the current state to the next completes the write of job j
WrittenStep(j) ==
    \A rt \in j.dis : \E k \in 1..Len(file') : file'[k].rt = rt /\ ~file'[k].en

\* C14: disableToken(t) sets t.enable to false, starts a write of the pool
\* as it was (t included), removes every entry with t's refresh_token from
\* this.tokens, reduces the round-robin cursor modulo the new length and
\* rebuilds the filtered quota index over the new list; when that write has
\* completed, the file holds t's record with enable false.
C14_DisableToken ==
    [][/\ \A c \in Callers :
             (ev'.op = "forbidden" /\ ev'.c = c /\ ~ev'.marker
              /\ FoundByAccessToken(calls[c].tok) # Undef)
                 => DisabledStep(FoundByAccessToken(calls[c].tok))
       /\ \A j \in jobs :
             (ev'.op = "jobWrite" /\ j \notin jobs') => WrittenStep(j)]_vars

C14_Witness ==
    /\ ev.op = "jobWrite"
    /\ \E k \in 1..Len(file) : ~file[k].en /\ file[k].rt \notin RtsOf(tm.tokens)
    /\ Len(tm.tokens) = MaxTokens - 1

\* ------------------------------------------- memory, pending writes, reload
MaxStoreCalls == 2   \* getToken() calls around a hot reload

\* round_robin with the project id fetched, the file as an operator left it
InitStore ==
    /\ Init
    /\ config = [strategy |-> "round_robin", requestCount |-> MaxCount,
                 skipProjectIdFetch |-> FALSE]

NextStore == StoreStep \/ TaskStep \/ (Settled /\ Quiet /\ Reload)
             \/ CallerStep(1, MaxStoreCalls)

\* request handlers one after the other, the writes they start, a hot reload
SpecStore == InitStore /\ [][NextStore]_vars

\* C13: the pool in memory decides: once disableToken(t) has run, no
\* getToken() returns t, also while the write that disableToken started is
\* still pending.
C13_MemoryAuthoritative ==
    (ev.op \in {"enter", "refresh", "project", "resume"} /\ ev.res = "token") =>
        \A j \in jobs : ev.rt \notin j.dis

\* ============================================ the streamed response: parser
MaxLines == 3     \* SSE lines of one upstream response
MaxParts == 2     \* parts of one data line
MaxSigs == 2      \* distinct thought signatures the upstream sends

MAX_REASONING_ENTRIES == 256
MAX_TOOL_ENTRIES == 256

\* one element of candidates[0].content.parts: thought is `thought === true`,
\* text is `text !== undefined`, fc is a functionCall, sig the thoughtSignature
\* (0: none)
Part(thought, text, fc, sig) == [thought |-> thought, text |-> text, fc |-> fc, sig |-> sig]

Parts ==
    {Part(TRUE, TRUE, FALSE, s) : s \in 0..MaxSigs}
    \cup {Part(FALSE, TRUE, FALSE, 0), Part(FALSE, TRUE, TRUE, 0)}
    \cup {Part(FALSE, FALSE, TRUE, s) : s \in 0..1}

PartSeqs == UNION {[1..n -> Parts] : n \in 0..MaxParts}

\* one complete line of the response body: "other" has no `data: ` prefix,
\* "bad" has the prefix and a payload that is not JSON, "json" is a JSON
\* payload with its parts, finishReason and usageMetadata
Lines ==
    {[kind |-> "json", parts |-> ps, finish |-> f, usage |-> u] :
        ps \in PartSeqs, f \in BOOLEAN, u \in BOOLEAN}
    \cup {[kind |-> k, parts |-> <<>>, finish |-> FALSE, usage |-> FALSE] :
            k \in {"bad", "other"}}

\* ---- thoughtSignatureCache.ts
makeKey(sessionId, model) == <<sessionId, model>>

MapHas(map, key) == \E k \in 1..Len(map) : map[k].key = key
MapGet(map, key) == map[CHOOSE k \in 1..Len(map) : map[k].key = key]

\* Map.prototype.set: an existing key keeps its place in the insertion order
MapSet(map, key, signature, ts) ==
    LET e == [key |-> key, signature |-> signature, ts |-> ts]
    IN IF MapHas(map, key)
       THEN [k \in 1..Len(map) |-> IF map[k].key = key THEN e ELSE map[k]]
       ELSE Append(map, e)

MapDelete(map, key) == SelectSeq(map, LAMBDA e : e.key # key)

pruneMap(map, targetSize) ==
    IF Len(map) <= targetSize THEN map
    ELSE SubSeq(map, Len(map) - targetSize + 1, Len(map))

\* a setter that keeps the signature a key already has
setReasoningSignature_first(c, sessionId, model, signature) ==
    IF signature = 0 \/ MapHas(c.reasoning, makeKey(sessionId, model)) THEN c
    ELSE [c EXCEPT !.reasoning =
             pruneMap(MapSet(@, makeKey(sessionId, model), signature, c.now),
                      MAX_REASONING_ENTRIES)]

setReasoningSignature(c, sessionId, model, signature) ==
    IF signature = 0 THEN c
    ELSE [c EXCEPT !.reasoning =
             pruneMap(MapSet(@, makeKey(sessionId, model), signature, c.now),
                      MAX_REASONING_ENTRIES)]

setToolSignature(c, sessionId, model, signature) ==
    IF signature = 0 THEN c
    ELSE [c EXCEPT !.tool =
             pruneMap(MapSet(@, makeKey(sessionId, model), signature, c.now),
                      MAX_TOOL_ENTRIES)]

\* ---- parseAndEmitStreamChunk; x is [s: the stream, c: the caches]
Event(type, tcs, sig) == [type |-> type, calls |-> tcs, sig |-> sig]

\* callback(e)
Emit(x, e) == [x EXCEPT !.s.events = Append(@, e)]

\* the body of `for (const part of parts)`; a tool call is its arrival number
parsePart(x, part) ==
    LET keyed == x.s.sessionId # 0 /\ x.s.model # 0
    IN IF part.thought
       THEN LET x1 == IF part.sig # 0
                      THEN [x EXCEPT !.s.reasoningSignature = part.sig,
                                     !.c = IF keyed
                                           THEN setReasoningSignature(x.c, x.s.sessionId,
                                                                      x.s.model, part.sig)
                                           ELSE x.c]
                      ELSE x
            IN Emit(x1, Event("reasoning", <<>>,
                              IF part.sig # 0 THEN part.sig ELSE x1.s.reasoningSignature))
       ELSE IF part.text THEN Emit(x, Event("text", <<>>, 0))
       ELSE IF part.fc
       THEN LET x1 == IF part.sig # 0 /\ keyed
                      THEN [x EXCEPT !.c = setToolSignature(x.c, x.s.sessionId,
                                                            x.s.model, part.sig)]
                      ELSE x
            IN [x1 EXCEPT !.s.toolCalls = Append(@, x.s.nfc + 1), !.s.nfc = @ + 1]
       ELSE x

RECURSIVE parseParts(_, _)
parseParts(x, parts) ==
    IF parts = <<>> THEN x ELSE parseParts(parsePart(x, Head(parts)), Tail(parts))

\* a parser that hands the buffered tool calls over after every line
flushToolCalls_eager(x, finish) ==
    IF x.s.toolCalls # <<>>
    THEN [Emit(x, Event("tool_calls", x.s.toolCalls, 0)) EXCEPT !.s.toolCalls = <<>>]
    ELSE x

\* `if (finishReason) { if (state.toolCalls.length > 0) {...} }`
flushToolCalls(x, finish) ==
    IF finish /\ x.s.toolCalls # <<>>
    THEN [Emit(x, Event("tool_calls", x.s.toolCalls, 0)) EXCEPT !.s.toolCalls = <<>>]
    ELSE x

\* a catch block that drops what the stream has buffered
catchParseError_reset(x) == [x EXCEPT !.s.toolCalls = <<>>, !.s.reasoningSignature = 0]

\* `catch { }` after JSON.parse threw: nothing was done before, nothing is done
catchParseError(x) == x

parseAndEmitStreamChunk(x, line) ==
    CASE line.kind = "other" -> x
      [] line.kind = "bad" -> catchParseError(x)
      [] OTHER ->
            LET x1 == flushToolCalls(parseParts(x, line.parts), line.finish)
            IN IF line.finish /\ line.usage THEN Emit(x1, Event("usage", <<>>, 0)) ELSE x1

\* ---- who stored what: the history the cache claims speak about
\* the entries of w that are still in the reasoning Map of c
Track(w, c) == [k \in DOMAIN w |-> [w[k] EXCEPT !.kept = @ /\ MapHas(c.reasoning, k)]]

\* the last signature a line of stream s stored under the stream's key
LastStored(line) ==
    LET idx == {i \in 1..Len(line.parts) : line.parts[i].thought /\ line.parts[i].sig # 0}
    IN IF line.kind # "json" \/ idx = {} THEN 0
       ELSE line.parts[CHOOSE i \in idx : \A j \in idx : j <= i].sig

Stored(w, s, line, now, conv) ==
    IF LastStored(line) # 0 /\ makeKey(s.sessionId, s.model) \in DOMAIN w
    THEN [w EXCEPT ![makeKey(s.sessionId, s.model)] =
             [sig |-> LastStored(line), ts |-> now, conv |-> conv, kept |-> TRUE]]
    ELSE w

\* ---- generateAssistantResponse and the streaming handler around it
\* httpStreamRequest resolved: the response has begun
StreamOpen(sessionId, model) ==
    /\ strm.pc = "idle"
    /\ strm' = [IdleStream EXCEPT !.pc = "open", !.sessionId = sessionId, !.model = model]
    /\ UNCHANGED <<tmvars, pvars, retry, cache, req>>

\* response.data 'data': the chunk completes one line
StreamData(line) ==
    /\ strm.pc = "open" /\ strm.nlines < MaxLines
    /\ LET x == parseAndEmitStreamChunk([s |-> strm, c |-> cache], line)
       IN /\ strm' = [x.s EXCEPT !.nlines = @ + 1, !.last = line.kind,
                                 !.finishes = IF line.finish THEN @ + 1 ELSE @,
                                 !.bad = IF line.kind = "bad" THEN @ + 1 ELSE @]
          /\ cache' = x.c
          /\ req' = [req EXCEPT !.wrote = Track(Stored(@, strm, line, cache.now, req.conv), x.c)]
    /\ UNCHANGED <<tmvars, pvars, retry>>

hasToolCall == \E k \in 1..Len(strm.events) : strm.events[k].type = "tool_calls"

\* response.data 'end': generateAssistantResponse resolves, the handler writes
\* the closing chunk and [DONE]
StreamEnd ==
    /\ strm.pc = "open"
    /\ strm' = [strm EXCEPT !.pc = "done", !.last = "end",
                            !.closed = IF hasToolCall THEN "tool_calls" ELSE "stop"]
    /\ UNCHANGED <<tmvars, pvars, retry, cache, req>>

\* response.data 'error': handleApiError throws, with429Retry rethrows (the
\* error has no status 429), the handler writes the error chunk and [DONE]
StreamError ==
    /\ strm.pc = "open"
    /\ strm' = [strm EXCEPT !.pc = "done", !.last = "error", !.closed = "error"]
    /\ UNCHANGED <<tmvars, pvars, retry, cache, req>>

\* one request: the session id of its credential and its model
InitStream == Init /\ ParkedTM

NextStream ==
    \/ StreamOpen(1, 1)
    \/ \E line \in Lines : StreamData(line)
    \/ StreamEnd
    \/ StreamError

SpecStream == InitStream /\ [][NextStream]_vars

\* the tool calls handed to the callback so far, in the order of the events
RECURSIVE Delivered(_)
Delivered(evs) ==
    IF evs = <<>> THEN <<>>
    ELSE (IF Head(evs).type = "tool_calls" THEN Head(evs).calls ELSE <<>>)
         \o Delivered(Tail(evs))

\* the callback invocations of the step from the current state to the next
NewEvents == SubSeq(strm'.events, Len(strm.events) + 1, Len(strm'.events))

LineStep == strm.pc = "open" /\ strm'.nlines = strm.nlines + 1

\* the line of this step carried finishReason / was not valid JSON
FinishStep == LineStep /\ strm'.finishes = strm.finishes + 1
BadStep == LineStep /\ strm'.bad = strm.bad + 1

\* C16: functionCall parts are buffered until a line carries finishReason. A
\* line without finishReason causes no tool_calls event; a line with it causes
\* exactly one, carrying the calls buffered before it and those of the line
\* itself in arrival order, and empties the buffer. At every moment the calls
\* delivered so far followed by the buffered ones are the accepted calls
\* 1..nfc in arrival order: none is delivered twice, none is lost.
C16_ToolCallBatching ==
    /\ [](Delivered(strm.events) \o strm.toolCalls = [k \in 1..strm.nfc |-> k])
    /\ [][LineStep =>
            LET batch == strm.toolCalls \o [k \in 1..(strm'.nfc - strm.nfc) |-> strm.nfc + k]
            IN IF FinishStep /\ batch # <<>>
               THEN /\ Delivered(NewEvents) = batch
                    /\ Cardinality({k \in 1..Len(NewEvents) :
                                       NewEvents[k].type = "tool_calls"}) = 1
                    /\ strm'.toolCalls = <<>>
               ELSE Delivered(NewEvents) = <<>>
                    /\ \A k \in 1..Len(NewEvents) : NewEvents[k].type # "tool_calls"]_vars

C16_Witness ==
    /\ strm.nlines = 3 /\ strm.finishes = 1 /\ strm.last = "json"
    /\ strm.events = <<Event("tool_calls", <<1, 2>>, 0)>>
    /\ strm.toolCalls = <<>>

\* C17: a data line whose payload is not valid JSON invokes no callback,
\* raises nothing (the response stays open) and leaves the buffered tool
\* calls, the running reasoning signature and the caches as they were, so the
\* lines after it are parsed from the same state as without it.
C17_BadJsonIgnored ==
    [][BadStep =>
          /\ strm'.events = strm.events
          /\ strm'.toolCalls = strm.toolCalls
          /\ strm'.reasoningSignature = strm.reasoningSignature
          /\ strm'.nfc = strm.nfc
          /\ strm'.pc = "open" /\ strm'.closed = "no"
          /\ cache' = cache]_vars

C17_Witness ==
    /\ strm.bad = 1 /\ strm.nlines = 3 /\ strm.last = "json" /\ strm.finishes = 1
    /\ strm.events = <<Event("reasoning", <<>>, 1), Event("tool_calls", <<1>>, 0)>>

\* C18: the handler closes the client stream as finished ("stop" or
\* "tool_calls") only when the upstream response came to its finishReason,
\* and with an error event when the upstream stream failed.
C18_NoSilentSuccess ==
    /\ strm.closed \in {"stop", "tool_calls"} => strm.finishes >= 1
    /\ strm.last = "error" => strm.closed = "error"

\* =========================================== signature cache across requests
MaxRequests == 2   \* requests converted one after the other
MaxTime == 4       \* clock ticks

\* time is counted in cleanup intervals of ten minutes
CLEAN_INTERVAL_MS == 1
ENTRY_TTL_MS == 3

pruneExpired(map, now) == SelectSeq(map, LAMBDA e : ~(now - e.ts > ENTRY_TTL_MS))

\* getReasoningSignature / getToolSignature on one of the Maps: the signature
\* (0 for null) and the Map afterwards
getSignature(map, now, sessionId, model) ==
    LET key == makeKey(sessionId, model)
    IN IF ~MapHas(map, key) THEN [map |-> map, sig |-> 0]
       ELSE IF now - MapGet(map, key).ts > ENTRY_TTL_MS
       THEN [map |-> MapDelete(map, key), sig |-> 0]
       ELSE [map |-> map, sig |-> MapGet(map, key).signature]

\* the hard-coded fallback constants: values no upstream signature has
getThoughtSignatureForModel(model) == MaxSigs + model
getToolSignatureForModel(model) == MaxSigs + MaxModels + model

getSignatureContext(c, sessionId, model) ==
    LET r == getSignature(c.reasoning, c.now, sessionId, model)
        t == getSignature(c.tool, c.now, sessionId, model)
    IN [c |-> [c EXCEPT !.reasoning = r.map, !.tool = t.map],
        cached |-> r.sig # 0,
        reasoningSignature |-> IF r.sig # 0 THEN r.sig
                               ELSE getThoughtSignatureForModel(model),
        toolSignature |-> IF t.sig # 0 THEN t.sig ELSE getToolSignatureForModel(model)]

\* the cleanup registered with the memory manager
memoryCleanup(c, pressure) ==
    CASE pressure = "MEDIUM" ->
            [c EXCEPT !.reasoning = pruneMap(@, MAX_REASONING_ENTRIES \div 2),
                      !.tool = pruneMap(@, MAX_TOOL_ENTRIES \div 2)]
      [] pressure = "HIGH" ->
            [c EXCEPT !.reasoning = pruneMap(@, MAX_REASONING_ENTRIES \div 4),
                      !.tool = pruneMap(@, MAX_TOOL_ENTRIES \div 4)]
      [] pressure = "CRITICAL" -> [c EXCEPT !.reasoning = <<>>, !.tool = <<>>]
      [] OTHER -> c

\* generateRequestBody(messages, model, ..., token) for a request of
\* conversation conv that getToken() gave the credential with this sessionId:
\* the assistant turns of the history get the signature of getSignatureContext
ConvertRequest(conv, sessionId, model) ==
    /\ req.pc = "idle" /\ req.n < MaxRequests
    /\ LET g == getSignatureContext(cache, sessionId, model)
       IN /\ cache' = g.c
          /\ req' = [req EXCEPT !.pc = "converted", !.n = @ + 1, !.conv = conv,
                                !.sessionId = sessionId, !.model = model,
                                !.at = cache.now, !.used = g.reasoningSignature,
                                !.from = IF g.cached
                                         THEN req.wrote[makeKey(sessionId, model)].conv
                                         ELSE 0,
                                !.prev = req.wrote[makeKey(sessionId, model)],
                                !.wrote = Track(@, g.c)]
    /\ strm' = IdleStream
    /\ UNCHANGED <<tmvars, pvars, retry>>

\* the handler is done with the request
RequestEnd ==
    /\ req.pc = "converted" /\ strm.pc = "done"
    /\ req' = [req EXCEPT !.pc = "idle"]
    /\ UNCHANGED <<tmvars, pvars, retry, strm, cache>>

\* ten minutes pass
Tick ==
    /\ cache.now < MaxTime
    /\ cache' = [cache EXCEPT !.now = @ + CLEAN_INTERVAL_MS]
    /\ UNCHANGED <<tmvars, pvars, retry, strm, req>>

\* the setInterval callback: pruneExpired on both Maps
CleanupTimer ==
    /\ cache' = [cache EXCEPT !.reasoning = pruneExpired(@, cache.now),
                              !.tool = pruneExpired(@, cache.now)]
    /\ req' = [req EXCEPT !.wrote = Track(@, cache')]
    /\ UNCHANGED <<tmvars, pvars, retry, strm>>

\* the memory manager reports a pressure level
MemoryCleanup(pressure) ==
    /\ cache' = memoryCleanup(cache, pressure)
    /\ req' = [req EXCEPT !.wrote = Track(@, cache')]
    /\ UNCHANGED <<tmvars, pvars, retry, strm>>

\* the lines of the responses: a thought with a signature, or the last line
CacheLines ==
    {[kind |-> "json", parts |-> <<Part(TRUE, TRUE, FALSE, s)>>, finish |-> FALSE,
      usage |-> FALSE] : s \in 1..MaxSigs}
    \cup {[kind |-> "json", parts |-> <<>>, finish |-> TRUE, usage |-> TRUE]}

NextCache ==
    \/ \E conv \in Convs, sessionId \in Sessions, model \in Models :
          ConvertRequest(conv, sessionId, model)
    \/ (req.pc = "converted" /\ StreamOpen(req.sessionId, req.model))
    \/ \E line \in CacheLines : StreamData(line)
    \/ StreamEnd
    \/ StreamError
    \/ RequestEnd
    \/ Tick
    \/ CleanupTimer
    \/ \E pressure \in {"MEDIUM", "HIGH", "CRITICAL"} : MemoryCleanup(pressure)

\* requests of several conversations, served one after the other
SpecCache == InitStream /\ [][NextCache]_vars

\* a request was converted and its response has not begun
JustConverted == req.pc = "converted" /\ strm.pc = "idle"

\* what was last streamed under the key of the request, as it was when the
\* request was converted
LastWrite == req.prev

\* C19 as stated: a signature streamed under (sessionId, model) is what the
\* next request converted for that key within the TTL uses.
C19_NextTurnUsesSignature ==
    (JustConverted /\ LastWrite.sig # 0 /\ ~(req.at - LastWrite.ts > ENTRY_TTL_MS))
        => req.used = LastWrite.sig

\* C19: the next request converted for (sessionId, model) uses the signature
\* streamed last under that key when that entry is still in the cache (not
\* removed by a memory-pressure cleanup or the size cap) and not older than
\* the TTL; otherwise it uses the hard-coded fallback of the model.
C19_NextTurnUsesKeptSignature ==
    JustConverted =>
        req.used = IF LastWrite.sig # 0 /\ LastWrite.kept
                      /\ ~(req.at - LastWrite.ts > ENTRY_TTL_MS)
                   THEN LastWrite.sig
                   ELSE getThoughtSignatureForModel(req.model)

C19_Witness ==
    /\ JustConverted /\ req.n = 2
    /\ LastWrite.sig = 2 /\ LastWrite.kept /\ req.used = 2
    /\ req.at > LastWrite.ts

\* C20: a signature stored while serving one conversation is used only for
\* requests of that conversation.
C20_ConversationIsolation ==
    (JustConverted /\ req.from # 0) => req.from = req.conv

\* ------------------------------------------------- tool names (utils.ts, paths.ts)

MaxRecords == 2    \* processToolName() calls in one run
MaxPad == 128      \* length of the long run of one character in a tool name

MAX_NAME_LENGTH == 128
MAX_ENTRIES == 512

\* characters of a tool name: two of the class [a-zA-Z0-9_-] and one outside it
Chars == {"a", "_", "."}
NameChars == {"a", "t", "o", "l", "_", "-"}

\* '' or undefined where a session id is expected
NoSession == 0

Repeat(c, n) == [i \in 1..n |-> c]

\* the names a client sends: an optional first character, an optional long
\* run of one character, an optional last character
ToolNames ==
    {h \o Repeat(c, n) \o t : h \in {<<>>} \cup {<<c>> : c \in Chars},
                              t \in {<<>>, <<"a">>},
                              c \in {"a", "."}, n \in {0, MaxPad}}

\* the sessions of the callers: one with a session id and one without
NameSessions == {NoSession, 1}

\* name.replace(/[^a-zA-Z0-9_-]/g, '_')
replaceInvalid(name) ==
    [i \in 1..Len(name) |-> IF name[i] \in NameChars THEN name[i] ELSE "_"]

\* cleaned.replace(/^_+|_+$/g, '')
trimUnderscores(s) ==
    LET keep == {i \in 1..Len(s) : s[i] # "_"}
    IN IF keep = {} THEN <<>>
       ELSE SubSeq(s, CHOOSE i \in keep : \A j \in keep : i <= j,
                      CHOOSE i \in keep : \A j \in keep : j <= i)

\* a sanitizer that returns what is left after trimming, even nothing
sanitizeToolName_bare(name) ==
    IF name = <<>> THEN <<"t", "o", "o", "l">>
    ELSE LET cleaned == trimUnderscores(replaceInvalid(name))
         IN IF Len(cleaned) > MAX_NAME_LENGTH THEN SubSeq(cleaned, 1, MAX_NAME_LENGTH)
            ELSE cleaned

sanitizeToolName(name) ==
    IF name = <<>> THEN <<"t", "o", "o", "l">>
    ELSE LET trimmed == trimUnderscores(replaceInvalid(name))
             cleaned == IF trimmed = <<>> THEN <<"t", "o", "o", "l">> ELSE trimmed
         IN IF Len(cleaned) > MAX_NAME_LENGTH THEN SubSeq(cleaned, 1, MAX_NAME_LENGTH)
            ELSE cleaned

\* `${sessionId || ''}::${model || ''}::${safeName || ''}`
makeToolKey(sessionId, model, safeName) == <<sessionId, model, safeName>>

pruneSize(map, targetSize) ==
    IF Len(map) <= targetSize THEN map
    ELSE SubSeq(map, Len(map) - targetSize + 1, Len(map))

pruneExpiredNames(map, now) == SelectSeq(map, LAMBDA e : ~(now - e.ts > ENTRY_TTL_MS))

\* toolNameMap.set(key, { originalName, ts }); pruneSize(MAX_ENTRIES)
setToolNameMapping(map, sessionId, model, safeName, originalName, now) ==
    IF safeName = <<>> \/ originalName = <<>> \/ safeName = originalName THEN map
    ELSE LET key == makeToolKey(sessionId, model, safeName)
             e == [key |-> key, originalName |-> originalName, ts |-> now]
         IN pruneSize(IF MapHas(map, key)
                      THEN [k \in 1..Len(map) |-> IF map[k].key = key THEN e ELSE map[k]]
                      ELSE Append(map, e),
                      MAX_ENTRIES)

\* the Map after the lookup (an expired entry is deleted) and what it returns
getOriginalToolName(map, sessionId, model, safeName, now) ==
    LET key == makeToolKey(sessionId, model, safeName)
    IN IF safeName = <<>> \/ ~MapHas(map, key) THEN [map |-> map, res |-> NoName]
       ELSE IF now - MapGet(map, key).ts > ENTRY_TTL_MS
            THEN [map |-> MapDelete(map, key), res |-> NoName]
            ELSE [map |-> map, res |-> MapGet(map, key).originalName]

\* converters/common.ts processToolName, as every converter calls it for a
\* tool call of the request
ProcessToolName(originalName, sessionId, actualModelName) ==
    LET safeName == sanitizeToolName(originalName)
        record == sessionId # NoSession /\ actualModelName # 0 /\ safeName # originalName
    IN /\ names.n < MaxRecords
       /\ names' = [names EXCEPT
                      !.n = @ + 1,
                      !.step = "set",
                      !.look = IdleNames.look,
                      !.map = IF record
                              THEN setToolNameMapping(@, sessionId, actualModelName,
                                                      safeName, originalName, names.now)
                              ELSE @,
                      !.rec = [sessionId |-> sessionId, model |-> actualModelName,
                               name |-> originalName, safe |-> safeName,
                               recorded |-> record /\ originalName # <<>>]]
       /\ UNCHANGED <<tmvars, retry, strm, cache, req, cvt, admin>>

\* the response side asks for the original name of a tool call
LookupToolName(sessionId, model, safeName) ==
    LET r == getOriginalToolName(names.map, sessionId, model, safeName, names.now)
    IN /\ names.step # "get"
       /\ names' = [names EXCEPT
                      !.step = "get",
                      !.map = r.map,
                      !.look = [sessionId |-> sessionId, model |-> model,
                                safe |-> safeName, res |-> r.res,
                                direct |-> names.step = "set"
                                           /\ names.rec.recorded
                                           /\ names.rec.sessionId = sessionId
                                           /\ names.rec.model = model
                                           /\ names.rec.safe = safeName]]
       /\ UNCHANGED <<tmvars, retry, strm, cache, req, cvt, admin>>

NamesTick ==
    /\ names.now < MaxTime
    /\ names' = [names EXCEPT !.now = @ + CLEAN_INTERVAL_MS, !.step = "tick",
                              !.look = IdleNames.look]
    /\ UNCHANGED <<tmvars, retry, strm, cache, req, cvt, admin>>

\* the setInterval callback of paths.ts
NamesCleanupTimer ==
    /\ names' = [names EXCEPT !.map = pruneExpiredNames(@, names.now), !.step = "tick",
                              !.look = IdleNames.look]
    /\ UNCHANGED <<tmvars, retry, strm, cache, req, cvt, admin>>

\* the memory manager reports a pressure level to the tool-name cache
NamesMemoryCleanup(pressure) ==
    /\ names' = [names EXCEPT
                   !.step = "tick",
                   !.look = IdleNames.look,
                   !.map = CASE pressure = "MEDIUM" -> pruneSize(@, MAX_ENTRIES \div 2)
                             [] pressure = "HIGH" -> pruneSize(@, MAX_ENTRIES \div 4)
                             [] pressure = "CRITICAL" -> <<>>
                             [] OTHER -> @]
    /\ UNCHANGED <<tmvars, retry, strm, cache, req, cvt, admin>>

NextNames ==
    \/ \E name \in ToolNames, sessionId \in NameSessions :
          ProcessToolName(name, sessionId, 1)
    \/ \E sessionId \in NameSessions :
          \E safeName \in {names.rec.safe} \cup {names.map[k].key[3] : k \in 1..Len(names.map)} :
             LookupToolName(sessionId, 1, safeName)
    \/ NamesTick
    \/ NamesCleanupTimer
    \/ \E pressure \in {"MEDIUM", "HIGH", "CRITICAL"} : NamesMemoryCleanup(pressure)

SpecNames == InitStream /\ [][NextNames]_vars

HasInvalid(name) == \E i \in 1..Len(name) : name[i] \notin NameChars

\* C21: a tool name with a character outside [A-Za-z0-9_-] is sanitized to a
\* non-empty name of at most 128 characters of that class, and a lookup made
\* right after the mapping was recorded, with the same session, model and
\* sanitized name, returns the original name
C21_ToolNameRoundTrip ==
    /\ (names.n > 0 /\ HasInvalid(names.rec.name)) =>
          /\ Len(names.rec.safe) \in 1..MAX_NAME_LENGTH
          /\ ~HasInvalid(names.rec.safe)
          /\ (names.rec.sessionId # NoSession => names.rec.recorded)
    /\ (names.step = "get" /\ names.look.direct) => names.look.res = names.rec.name

\* a name longer than 128 characters, cut by the sanitizer, was recorded and
\* looked up at once
C21_Witness ==
    /\ names.step = "get" /\ names.look.direct
    /\ HasInvalid(names.rec.name)
    /\ Len(names.rec.name) > MAX_NAME_LENGTH
    /\ Len(names.rec.safe) = MAX_NAME_LENGTH
    /\ names.look.res = names.rec.name

\* ------------------------------------- request converters (converters/*.ts)

MaxMsgs == 2        \* client messages of one request
MaxToolCalls == 2   \* tool calls, or content items, of one assistant message

\* one part of an Antigravity message. thought is `thought === true`, text is
\* `text !== undefined`, fc a functionCall and fr a functionResponse with
\* their id (0: none) and name, sig the thoughtSignature (0: none). carried
\* remembers the signature the client sent with the piece the part was made
\* from (0: none); the program does not keep it.
MsgPart(thought, text, fc, fr, id, name, sig, carried) ==
    [thought |-> thought, text |-> text, fc |-> fc, fr |-> fr, id |-> id,
     name |-> name, sig |-> sig, carried |-> carried]

createThoughtPart(signature, carried) ==
    MsgPart(TRUE, TRUE, FALSE, FALSE, 0, <<>>, signature, carried)

createFunctionCallPart(id, name, signature, carried) ==
    MsgPart(FALSE, FALSE, TRUE, FALSE, id, name, signature, carried)

TextPart(signature, carried) ==
    MsgPart(FALSE, TRUE, FALSE, FALSE, 0, <<>>, signature, carried)

\* a || b on signatures
OrSig(a, b) == IF a # 0 THEN a ELSE b

\* pushUserMessage
pushUserMessage(msgs) == Append(msgs, [role |-> "user", parts |-> <<TextPart(0, 0)>>])

\* a pushModelMessage that starts a new message every time
pushModelMessage_split(parts, toolCalls, hasContent, msgs) ==
    IF toolCalls # <<>> /\ ~hasContent
    THEN Append(msgs, [role |-> "model", parts |-> toolCalls])
    ELSE Append(msgs, [role |-> "model", parts |-> parts \o toolCalls])

\* pushModelMessage: tool calls without text join the model message before them
pushModelMessage(parts, toolCalls, hasContent, msgs) ==
    IF msgs # <<>> /\ msgs[Len(msgs)].role = "model" /\ toolCalls # <<>> /\ ~hasContent
    THEN [msgs EXCEPT ![Len(msgs)].parts = @ \o toolCalls]
    ELSE Append(msgs, [role |-> "model", parts |-> parts \o toolCalls])

\* `delete parts[0].thoughtSignature` when thinking is off
dropFirstSignature(enableThinking, parts) ==
    IF ~enableThinking /\ parts # <<>> THEN [parts EXCEPT ![1].sig = 0] ELSE parts

\* the names the tool calls of the clients have
CallNames == {<<"a">>, <<".", "a">>}

\* ---- converters/openai.ts
\* an assistant message of the Chat Completions API: content is non-blank,
\* reasoning_content is a non-empty string, thoughtSignature (0: none), and
\* the tool calls with their own thoughtSignature
ToolCalls ==
    {[id |-> 1, name |-> <<"a">>, thoughtSignature |-> s] : s \in 0..1}
    \cup {[id |-> 1, name |-> <<".", "a">>, thoughtSignature |-> 0]}
OpenAIMessages ==
    [content : BOOLEAN, reasoning_content : BOOLEAN, thoughtSignature : 0..1,
     tool_calls : UNION {[1..n -> ToolCalls] : n \in 0..MaxToolCalls}]

\* handleAssistantMessage up to its pushModelMessage call
openaiParts(message, enableThinking, g) ==
    [toolCalls |->
        [k \in 1..Len(message.tool_calls) |->
            LET toolCall == message.tool_calls[k]
            IN createFunctionCallPart(
                  toolCall.id, sanitizeToolName(toolCall.name),
                  IF enableThinking
                  THEN OrSig(toolCall.thoughtSignature, g.toolSignature) ELSE 0,
                  toolCall.thoughtSignature)],
     parts |->
        dropFirstSignature(enableThinking,
            (IF enableThinking
             THEN <<createThoughtPart(g.reasoningSignature, message.thoughtSignature)>>
             ELSE <<>>)
            \o (IF message.content
                THEN <<TextPart(OrSig(message.thoughtSignature, g.reasoningSignature),
                                message.thoughtSignature)>>
                ELSE <<>>)),
     hasContent |-> message.content,
     reasoning |-> message.reasoning_content,
     names |-> [k \in 1..Len(message.tool_calls) |-> message.tool_calls[k].name]]

\* ---- converters/claude.ts
\* the content blocks of an assistant message of the Messages API; a thinking
\* block carries the signature the upstream gave it
ClaudeItems ==
    {[type |-> "text", name |-> <<>>, signature |-> 0]}
    \cup {[type |-> "tool_use", name |-> n, signature |-> 0] : n \in CallNames}
    \cup {[type |-> "thinking", name |-> <<>>, signature |-> 1]}
ClaudeMessages == UNION {[1..n -> ClaudeItems] : n \in 0..MaxToolCalls}

\* the signature of the thinking blocks of a message (0: none)
ClaudeCarried(content) ==
    IF \E k \in 1..Len(content) : content[k].type = "thinking" THEN 1 ELSE 0

\* handleClaudeAssistantMessage up to its pushModelMessage call
claudeParts(content, enableThinking, g) ==
    LET uses == SelectSeq(content, LAMBDA item : item.type = "tool_use")
        hasContent == \E k \in 1..Len(content) : content[k].type = "text"
    IN [toolCalls |->
           [k \in 1..Len(uses) |->
               createFunctionCallPart(1, sanitizeToolName(uses[k].name),
                                      IF enableThinking THEN g.toolSignature ELSE 0, 0)],
        parts |->
           dropFirstSignature(enableThinking,
               (IF enableThinking
                THEN <<createThoughtPart(g.reasoningSignature, ClaudeCarried(content))>>
                ELSE <<>>)
               \o (IF hasContent
                   THEN <<TextPart(g.reasoningSignature, ClaudeCarried(content))>>
                   ELSE <<>>)),
        hasContent |-> hasContent,
        reasoning |-> ClaudeCarried(content) # 0,
        names |-> [k \in 1..Len(uses) |-> uses[k].name]]

\* ---- converters/responses.ts
\* the content items of an assistant item of the Responses API; a function
\* call has a call_id or only an id, a reasoning item may carry a signature
ResponsesItems ==
    {[type |-> "output_text", name |-> <<>>, call_id |-> FALSE, signature |-> 0]}
    \cup {[type |-> "function_call", name |-> <<"a">>, call_id |-> b, signature |-> 0] :
             b \in BOOLEAN}
    \cup {[type |-> "reasoning", name |-> <<>>, call_id |-> FALSE, signature |-> s] :
             s \in 0..1}
ResponsesMessages == UNION {[1..n -> ResponsesItems] : n \in 0..MaxToolCalls}

RECURSIVE responsesItems(_, _, _, _)
\* the loop over message.content: text parts are pushed, thought parts unshifted
responsesItems(content, enableThinking, g, parts) ==
    IF content = <<>> THEN parts
    ELSE LET item == Head(content)
             next ==
               CASE item.type = "output_text" ->
                       Append(parts, TextPart(IF enableThinking
                                              THEN g.reasoningSignature ELSE 0, 0))
                 [] item.type = "reasoning" /\ enableThinking ->
                       <<createThoughtPart(OrSig(item.signature, g.reasoningSignature),
                                           item.signature)>> \o parts
                 [] OTHER -> parts
         IN responsesItems(Tail(content), enableThinking, g, next)

\* handleAssistantMessage of the Responses API up to its pushModelMessage call
responsesParts(content, enableThinking, g) ==
    LET fcs == SelectSeq(content, LAMBDA item : item.type = "function_call")
        parts == responsesItems(content, enableThinking, g, <<>>)
    IN [toolCalls |->
           [k \in 1..Len(fcs) |->
               createFunctionCallPart(1, sanitizeToolName(fcs[k].name),
                                      IF enableThinking /\ fcs[k].call_id
                                      THEN g.toolSignature ELSE 0, 0)],
        parts |->
           IF enableThinking /\ ~\E k \in 1..Len(parts) : parts[k].thought
           THEN <<createThoughtPart(g.reasoningSignature, 0)>> \o parts
           ELSE parts,
        hasContent |-> \E k \in 1..Len(content) : content[k].type = "output_text",
        reasoning |-> \E k \in 1..Len(content) : content[k].type = "reasoning",
        names |-> [k \in 1..Len(fcs) |-> fcs[k].name]]

RECURSIVE processToolNames(_, _, _, _, _)
\* processToolName on each tool call: the mappings it records
processToolNames(map, ns, sessionId, model, now) ==
    IF ns = <<>> THEN map
    ELSE processToolNames(
            IF sessionId # NoSession /\ model # 0 /\ sanitizeToolName(Head(ns)) # Head(ns)
            THEN setToolNameMapping(map, sessionId, model, sanitizeToolName(Head(ns)),
                                    Head(ns), now)
            ELSE map,
            Tail(ns), sessionId, model, now)

\* a request arrives in one of the formats; thinking is on or off for its model
ConvFormats == {"openai", "claude", "responses"}
NewConv(format, enableThinking) ==
    [op |-> format, enableThinking |-> enableThinking, n |-> 0, msgs |-> <<>>,
     last |-> [role |-> "none", reasoning |-> FALSE, toolCalls |-> FALSE,
               reasoningSignature |-> 0, toolSignature |-> 0]]

\* a user message of the request is converted
ConvertUser ==
    /\ cvt.op \in ConvFormats /\ cvt.n < MaxMsgs
    /\ cvt' = [cvt EXCEPT !.n = @ + 1, !.msgs = pushUserMessage(@),
                          !.last = [NewConv("", FALSE).last EXCEPT !.role = "user"]]
    /\ UNCHANGED <<tmvars, retry, strm, cache, req, names, admin>>

\* an assistant message of the request is converted: r is what the handler of
\* the format made of it
ConvertAssistant(format, r, g) ==
    /\ cvt.op = format /\ cvt.n < MaxMsgs
    /\ cache' = g.c
    /\ names' = [names EXCEPT !.map = processToolNames(@, r.names, 1, 1, names.now)]
    /\ cvt' = [cvt EXCEPT
                 !.n = @ + 1,
                 !.msgs = pushModelMessage(r.parts, r.toolCalls, r.hasContent, @),
                 !.last = [role |-> "assistant", reasoning |-> r.reasoning,
                           toolCalls |-> r.toolCalls # <<>>,
                           reasoningSignature |-> g.reasoningSignature,
                           toolSignature |-> g.toolSignature]]
    /\ UNCHANGED <<tmvars, retry, strm, req, admin>>

HandleAssistantMessage(message) ==
    LET g == getSignatureContext(cache, 1, 1)
    IN ConvertAssistant("openai", openaiParts(message, cvt.enableThinking, g), g)

HandleClaudeAssistantMessage(content) ==
    LET g == getSignatureContext(cache, 1, 1)
    IN ConvertAssistant("claude", claudeParts(content, cvt.enableThinking, g), g)

HandleResponsesAssistantMessage(content) ==
    LET g == getSignatureContext(cache, 1, 1)
    IN ConvertAssistant("responses", responsesParts(content, cvt.enableThinking, g), g)

\* what earlier responses left in the caches for session 1, model 1
ConvCaches ==
    {[EmptyCache EXCEPT
        !.reasoning = IF r = 0 THEN <<>> ELSE MapSet(<<>>, makeKey(1, 1), r, 0),
        !.tool = IF t = 0 THEN <<>> ELSE MapSet(<<>>, makeKey(1, 1), t, 0)] :
     r \in {0, MaxSigs}, t \in {0, MaxSigs}}

InitConv ==
    /\ InitCore /\ ParkedTM
    /\ names = IdleNames /\ admin = IdleAdmin
    /\ cache \in ConvCaches
    /\ cvt \in {NewConv(format, b) : format \in ConvFormats, b \in BOOLEAN}

NextConv ==
    \/ ConvertUser
    \/ \E message \in OpenAIMessages : HandleAssistantMessage(message)
    \/ \E content \in ClaudeMessages : HandleClaudeAssistantMessage(content)
    \/ \E content \in ResponsesMessages : HandleResponsesAssistantMessage(content)

SpecConv == InitConv /\ [][NextConv]_vars

Thoughts(m) == {k \in 1..Len(m.parts) : m.parts[k].thought}
FunctionCalls(m) == {k \in 1..Len(m.parts) : m.parts[k].fc}

\* the message the assistant message just converted ended up in
Unified == cvt.msgs[Len(cvt.msgs)]

\* an assistant message with tool calls and no reasoning was just converted
\* with thinking enabled
ToolCallsNoReasoning ==
    /\ cvt.op \in ConvFormats /\ cvt.enableThinking
    /\ cvt.last.role = "assistant" /\ cvt.last.toolCalls /\ ~cvt.last.reasoning

EveryModelMessageThinks ==
    (cvt.op \in ConvFormats /\ cvt.enableThinking) =>
       \A i \in 1..Len(cvt.msgs) :
          cvt.msgs[i].role = "model" => Thoughts(cvt.msgs[i]) # {}

\* C22 as stated: with thinking enabled every model message has a thought
\* part, and the message an assistant message with tool calls and no reasoning
\* is converted into has exactly one thought part, before every functionCall
C22_OneThoughtBeforeCalls ==
    /\ EveryModelMessageThinks
    /\ ToolCallsNoReasoning =>
          /\ Cardinality(Thoughts(Unified)) = 1
          /\ \A t \in Thoughts(Unified), f \in FunctionCalls(Unified) : t < f

\* C22 amended: with thinking enabled every model message has a thought part,
\* and the message an assistant message with tool calls and no reasoning is
\* converted into has its thought parts before every functionCall: exactly
\* one for the Chat Completions and Messages formats, at least one for the
\* Responses format, where the tool calls may join a model message made from
\* several reasoning items
C22_ThoughtsBeforeCalls ==
    /\ EveryModelMessageThinks
    /\ ToolCallsNoReasoning =>
          /\ Thoughts(Unified) # {}
          /\ \A t \in Thoughts(Unified), f \in FunctionCalls(Unified) : t < f
          /\ cvt.op \in {"openai", "claude"} => Cardinality(Thoughts(Unified)) = 1

\* the tool calls of a Chat Completions message without reasoning joined the
\* model message before them, which keeps its one thought part in front
C22_Witness ==
    /\ ToolCallsNoReasoning /\ cvt.op = "openai"
    /\ cvt.n = 2 /\ Len(cvt.msgs) = 1
    /\ Thoughts(Unified) = {1}
    /\ Cardinality(FunctionCalls(Unified)) >= 2

\* the signature the stated priority gives a part: the one the client sent,
\* else the cached one, else the fallback constant of the model
Preferred(p) ==
    LET g == getSignatureContext(cache, 1, 1)
    IN OrSig(p.carried, IF p.thought THEN g.reasoningSignature ELSE g.toolSignature)

\* the thought parts and functionCall parts of the model messages converted
\* with thinking enabled
Synthesized ==
    IF cvt.op \in ConvFormats /\ cvt.enableThinking
    THEN UNION {{cvt.msgs[i].parts[k] :
                    k \in Thoughts(cvt.msgs[i]) \cup FunctionCalls(cvt.msgs[i])} :
                i \in {m \in 1..Len(cvt.msgs) : cvt.msgs[m].role = "model"}}
    ELSE {}

EveryPartSigned == \A p \in Synthesized : p.sig # 0

\* C23: with thinking enabled every thought part and every functionCall part
\* of a converted model message has a signature, and it is the one the client
\* sent with the message or tool call if there was one, else the cached one
\* of the session and model, else the fallback constant
C23_SignaturePriority ==
    /\ EveryPartSigned
    /\ \A p \in Synthesized : p.sig = Preferred(p)

\* ------------------------------------------- Gemini requests (converters/gemini.ts)

MaxGemParts == 3   \* parts of the model message of a one-message request
MaxContents == 3   \* messages of a request with function calls and responses

\* generateFunctionCallId(): an id no client sent and no earlier call returned
generateFunctionCallId(gen) == 10 + gen

\* ---- processFunctionCallIds; st is [contents, gen: ids generated so far,
\* matched: matchedCallIndices of the user message being processed]
RECURSIVE ensureCallIds(_, _, _)
\* first pass: every functionCall of a model message gets an id
ensureCallIds(st, i, k) ==
    IF i > Len(st.contents) THEN st
    ELSE IF k > Len(st.contents[i].parts) THEN ensureCallIds(st, i + 1, 1)
    ELSE LET part == st.contents[i].parts[k]
         IN IF st.contents[i].role = "model" /\ part.fc /\ part.id = 0
            THEN ensureCallIds(
                    [st EXCEPT !.contents[i].parts[k].id = generateFunctionCallId(st.gen),
                               !.gen = @ + 1], i, k + 1)
            ELSE ensureCallIds(st, i, k + 1)

\* functionCallsByMessage.get(i): the positions of the calls of message i
CallsOf(contents, i) ==
    IF contents[i].role = "model"
    THEN {k \in 1..Len(contents[i].parts) : contents[i].parts[k].fc}
    ELSE {}

\* the most recent message before msgIndex that has function calls (0: none)
prevModelCalls(contents, msgIndex) ==
    LET has == {i \in 1..(msgIndex - 1) : CallsOf(contents, i) # {}}
    IN IF has = {} THEN 0 ELSE CHOOSE i \in has : \A j \in has : j <= i

\* prevModelCalls.find(...): the first of the positions ks (0: none)
First(ks) == IF ks = {} THEN 0 ELSE CHOOSE k \in ks : \A j \in ks : k <= j

\* a matcher for responses without an id that takes the call's id only when
\* a call of the same name is left
matchResponse_byname(st, i, k) ==
    LET part == st.contents[i].parts[k]
        prev == prevModelCalls(st.contents, i)
        free == IF prev = 0 THEN {} ELSE CallsOf(st.contents, prev) \ st.matched
        byName == First({c \in free : st.contents[prev].parts[c].name = part.name})
    IN IF prev = 0 \/ part.id # 0 \/ byName = 0 THEN st
       ELSE [st EXCEPT !.contents[i].parts[k].id = st.contents[prev].parts[byName].id,
                       !.matched = @ \cup {byName}]

\* the body of the loop over the parts of a user message, for one
\* functionResponse part
matchResponse(st, i, k) ==
    LET part == st.contents[i].parts[k]
        prev == prevModelCalls(st.contents, i)
        free == IF prev = 0 THEN {} ELSE CallsOf(st.contents, prev) \ st.matched
        byName == First({c \in free : st.contents[prev].parts[c].name = part.name})
        any == First(free)
    IN IF prev = 0 THEN st
       ELSE IF part.id # 0
       THEN IF byName = 0 THEN st
            ELSE [st EXCEPT !.contents[prev].parts[byName].id = part.id,
                            !.matched = @ \cup {byName}]
       ELSE IF byName # 0
       THEN [st EXCEPT !.contents[i].parts[k].id = st.contents[prev].parts[byName].id,
                       !.matched = @ \cup {byName}]
       ELSE IF any # 0
       THEN [st EXCEPT !.contents[i].parts[k].id = st.contents[prev].parts[any].id,
                       !.matched = @ \cup {any}]
       ELSE [st EXCEPT !.contents[i].parts[k].id = generateFunctionCallId(st.gen),
                       !.gen = @ + 1]

RECURSIVE matchResponses(_, _, _)
\* second pass: the functionResponse parts of the user messages, in order
matchResponses(st, i, k) ==
    IF i > Len(st.contents) THEN st
    ELSE IF k > Len(st.contents[i].parts)
    THEN matchResponses([st EXCEPT !.matched = {}], i + 1, 1)
    ELSE IF st.contents[i].role = "user" /\ st.contents[i].parts[k].fr
    THEN matchResponses(matchResponse(st, i, k), i, k + 1)
    ELSE matchResponses(st, i, k + 1)

processFunctionCallIds(contents) ==
    matchResponses(ensureCallIds([contents |-> contents, gen |-> 0, matched |-> {}], 1, 1),
                   1, 1).contents

\* ---- processModelThoughts
\* parts.splice(index, 1)
Splice(parts, index) ==
    [k \in 1..(Len(parts) - 1) |-> IF k < index THEN parts[k] ELSE parts[k + 1]]

\* the last position satisfying a test (0: none)
LastIdx(ks) == IF ks = {} THEN 0 ELSE CHOOSE k \in ks : \A j \in ks : j <= k

\* a part that is nothing but a thoughtSignature
Standalone(part) == part.sig # 0 /\ ~part.thought /\ ~part.fc /\ ~part.text

\* the position the first loop leaves in signatureIndex
signatureIndex(parts) ==
    LastIdx({i \in 1..Len(parts) : parts[i].sig # 0 /\ ~parts[i].thought})

\* "Merge or add thought and signature"
mergeThought(parts, reasoningSignature) ==
    LET thoughtIndex == LastIdx({i \in 1..Len(parts) :
                                    parts[i].thought /\ parts[i].sig = 0})
        sigIndex == signatureIndex(parts)
    IN IF thoughtIndex # 0 /\ sigIndex # 0
       THEN Splice([parts EXCEPT ![thoughtIndex].sig = parts[sigIndex].sig], sigIndex)
       ELSE IF thoughtIndex # 0
       THEN [parts EXCEPT ![thoughtIndex].sig = reasoningSignature]
       ELSE <<createThoughtPart(reasoningSignature, 0)>> \o parts

\* a signing of the calls that leaves a call unsigned once the standalone
\* signatures are used up
signCalls_nofallback(parts, toolSignature) ==
    LET standalone == SelectSeq(parts, Standalone)
        Rank(i) == Cardinality({j \in 1..i : parts[j].fc /\ parts[j].sig = 0})
    IN [i \in 1..Len(parts) |->
           IF parts[i].fc /\ parts[i].sig = 0 /\ Rank(i) <= Len(standalone)
           THEN [parts[i] EXCEPT !.sig = standalone[Rank(i)].sig]
           ELSE parts[i]]

\* "Assign signature to functionCall": the n-th unsigned call takes the n-th
\* standalone signature, or toolSignature when they are used up
signCalls(parts, toolSignature) ==
    LET standalone == SelectSeq(parts, Standalone)
        Rank(i) == Cardinality({j \in 1..i : parts[j].fc /\ parts[j].sig = 0})
    IN [i \in 1..Len(parts) |->
           IF parts[i].fc /\ parts[i].sig = 0
           THEN [parts[i] EXCEPT !.sig = IF Rank(i) <= Len(standalone)
                                         THEN standalone[Rank(i)].sig
                                         ELSE toolSignature]
           ELSE parts[i]]

\* "Remove used independent signature parts": the first `used` of them
RECURSIVE removeUsed(_, _)
removeUsed(parts, used) ==
    IF parts = <<>> THEN <<>>
    ELSE IF Standalone(Head(parts)) /\ used > 0 THEN removeUsed(Tail(parts), used - 1)
    ELSE <<Head(parts)>> \o removeUsed(Tail(parts), used)

processModelThoughts(parts, reasoningSignature, toolSignature) ==
    LET merged == mergeThought(parts, reasoningSignature)
        unsigned == Cardinality({i \in 1..Len(merged) : merged[i].fc /\ merged[i].sig = 0})
        standalone == Cardinality({i \in 1..Len(merged) : Standalone(merged[i])})
    IN removeUsed(signCalls(merged, toolSignature), Min(unsigned, standalone))

\* ---- the requests
\* a thought without signature or text, one with both, two standalone
\* signatures, text without and with signature, calls with and without
\* signature or id
GeminiParts ==
    {MsgPart(TRUE, FALSE, FALSE, FALSE, 0, <<>>, 0, 0),
     MsgPart(TRUE, TRUE, FALSE, FALSE, 0, <<>>, 1, 0),
     MsgPart(FALSE, FALSE, FALSE, FALSE, 0, <<>>, 1, 0),
     MsgPart(FALSE, FALSE, FALSE, FALSE, 0, <<>>, 2, 0),
     MsgPart(FALSE, TRUE, FALSE, FALSE, 0, <<>>, 0, 0),
     MsgPart(FALSE, TRUE, FALSE, FALSE, 0, <<>>, 1, 0),
     MsgPart(FALSE, FALSE, TRUE, FALSE, 1, <<"a">>, 0, 0),
     MsgPart(FALSE, FALSE, TRUE, FALSE, 1, <<"a">>, 1, 0),
     MsgPart(FALSE, FALSE, TRUE, FALSE, 0, <<"b">>, 0, 0)}

CallParts ==
    {MsgPart(FALSE, FALSE, TRUE, FALSE, 1, <<"a">>, 0, 0),
     MsgPart(FALSE, FALSE, TRUE, FALSE, 0, <<"a">>, 0, 0),
     MsgPart(FALSE, FALSE, TRUE, FALSE, 0, <<"b">>, 0, 0)}

ResponseParts ==
    {MsgPart(FALSE, FALSE, FALSE, TRUE, 0, <<"a">>, 0, 0),
     MsgPart(FALSE, FALSE, FALSE, TRUE, 2, <<"a">>, 0, 0),
     MsgPart(FALSE, FALSE, FALSE, TRUE, 0, <<"b">>, 0, 0)}

\* model messages of calls and user messages of responses or of text
TurnMessages ==
    {[role |-> "model", parts |-> ps] : ps \in UNION {[1..n -> CallParts] : n \in 1..2}}
    \cup {[role |-> "user", parts |-> ps] :
             ps \in UNION {[1..n -> ResponseParts] : n \in 1..2}}
    \cup {[role |-> "user", parts |-> <<TextPart(0, 0)>>]}

GeminiContents ==
    {<<[role |-> "model", parts |-> ps]>> :
        ps \in UNION {[1..n -> GeminiParts] : n \in 0..MaxGemParts}}
    \cup UNION {[1..n -> TurnMessages] : n \in 2..MaxContents}

\* a Gemini request has arrived
NewGemini(contents, enableThinking) ==
    [op |-> "gemini", enableThinking |-> enableThinking, n |-> 0,
     contents |-> contents, msgs |-> <<>>]

\* generateGeminiRequestBody: ids first, then thoughts and signatures of the
\* model messages when thinking is enabled
GenerateGeminiRequestBody ==
    /\ cvt.op = "gemini" /\ cvt.n = 0
    /\ LET g == getSignatureContext(cache, 1, 1)
           ided == processFunctionCallIds(cvt.contents)
       IN /\ cache' = IF cvt.enableThinking THEN g.c ELSE cache
          /\ cvt' = [cvt EXCEPT
                       !.n = 1,
                       !.msgs = IF cvt.enableThinking
                                THEN [i \in 1..Len(ided) |->
                                        IF ided[i].role = "model"
                                        THEN [ided[i] EXCEPT !.parts =
                                                 processModelThoughts(@,
                                                     g.reasoningSignature,
                                                     g.toolSignature)]
                                        ELSE ided[i]]
                                ELSE ided]
    /\ UNCHANGED <<tmvars, retry, strm, req, names, admin>>

InitGemini ==
    /\ InitCore /\ ParkedTM
    /\ names = IdleNames /\ admin = IdleAdmin
    /\ cache \in {c \in ConvCaches : (c.reasoning = <<>>) = (c.tool = <<>>)}
    /\ cvt \in {NewGemini(contents, b) : contents \in GeminiContents, b \in BOOLEAN}

NextGemini == GenerateGeminiRequestBody

SpecGemini == InitGemini /\ [][NextGemini]_vars

\* the parts of a message that have text or a functionCall, without their
\* signatures
Content(parts) ==
    LET kept == SelectSeq(parts, LAMBDA p : p.text \/ p.fc)
    IN [k \in 1..Len(kept) |-> [kept[k] EXCEPT !.sig = 0]]

RECURSIVE IsSubseq(_, _)
\* a is what is left of b after removing some of its elements
IsSubseq(a, b) ==
    IF a = <<>> THEN TRUE
    ELSE IF b = <<>> THEN FALSE
    ELSE IF Head(a) = Head(b) THEN IsSubseq(Tail(a), Tail(b))
    ELSE IsSubseq(a, Tail(b))

\* a request with thinking enabled was converted
GeminiThought == cvt.op = "gemini" /\ cvt.n = 1 /\ cvt.enableThinking

\* the model messages as processModelThoughts received them
Ided == processFunctionCallIds(cvt.contents)

\* C24: processModelThoughts removes only standalone signature parts: the
\* text parts and functionCall parts of every model message are all still
\* there afterwards, in the same order
C24_ContentPreserved ==
    GeminiThought =>
       \A i \in 1..Len(cvt.msgs) :
          cvt.msgs[i].role = "model" =>
             IsSubseq(Content(Ided[i].parts), Content(cvt.msgs[i].parts))

\* the message of the example: a bare thought, a standalone signature 1 and
\* a functionCall without signature
ExampleParts ==
    <<MsgPart(TRUE, FALSE, FALSE, FALSE, 0, <<>>, 0, 0),
      MsgPart(FALSE, FALSE, FALSE, FALSE, 0, <<>>, 1, 0),
      MsgPart(FALSE, FALSE, TRUE, FALSE, 1, <<"a">>, 0, 0)>>

ExampleConverted ==
    GeminiThought /\ cvt.contents = <<[role |-> "model", parts |-> ExampleParts]>>

\* C26 as stated: the example gives two parts, the thought with the
\* standalone signature and the functionCall as it was, without signature
C26_CallUnchanged ==
    ExampleConverted =>
       cvt.msgs[1].parts = <<[ExampleParts[1] EXCEPT !.sig = 1], ExampleParts[3]>>

\* C26 amended: the example gives two parts, the thought with the standalone
\* signature and the functionCall, which is given the tool signature of the
\* session and model (the cached one, else the fallback constant)
C26_CallGetsToolSignature ==
    ExampleConverted =>
       cvt.msgs[1].parts =
          <<[ExampleParts[1] EXCEPT !.sig = 1],
            [ExampleParts[3] EXCEPT !.sig = getSignatureContext(cache, 1, 1).toolSignature]>>

\* the example was converted with nothing cached: the call has the fallback
C26_Witness ==
    /\ ExampleConverted
    /\ cache.tool = <<>>
    /\ Len(cvt.msgs[1].parts) = 2
    /\ cvt.msgs[1].parts[2].sig = getToolSignatureForModel(1)

\* a Gemini request was converted
GeminiDone == cvt.op = "gemini" /\ cvt.n = 1

\* the functionResponse parts of the user messages: message and position
Responses ==
    UNION {{<<i, k>> : k \in {n \in 1..Len(cvt.msgs[i].parts) : cvt.msgs[i].parts[n].fr}} :
           i \in {m \in 1..Len(cvt.msgs) : cvt.msgs[m].role = "user"}}

\* the ids of the functionCall parts of message j of the result
CallIds(j) == {cvt.msgs[j].parts[c].id : c \in CallsOf(cvt.msgs, j)}

EveryCallHasId ==
    \A j \in 1..Len(cvt.msgs) : 0 \notin CallIds(j)

RelabelledLater(i) ==
    \E r \in Responses :
       /\ r[1] > i
       /\ prevModelCalls(cvt.contents, r[1]) = prevModelCalls(cvt.contents, i)
       /\ cvt.contents[r[1]].parts[r[2]].id # 0

MaxStores == 3     \* set operations on the caches in one run

\* the reasoning Map of a process that has stored a signature for n sessions
Prefilled(n) == [k \in 1..n |-> [key |-> makeKey(k, 1), signature |-> 1, ts |-> 0]]

\* the sessions that store next: the first of the Map and one not yet in it
StoreSessions == {1, MAX_REASONING_ENTRIES + 1}

Entries(map) == {map[k] : k \in 1..Len(map)}

\* a response stores a signature: setReasoningSignature or setToolSignature.
\* evicted holds the entries whose keys the call removed from its Map.
StoreSignature(kind, sessionId, signature) ==
    /\ cvt.op = "store" /\ cvt.n < MaxStores
    /\ cache' = IF kind = "reasoning"
                THEN setReasoningSignature(cache, sessionId, 1, signature)
                ELSE setToolSignature(cache, sessionId, 1, signature)
    /\ cvt' = [cvt EXCEPT
                 !.n = @ + 1,
                 !.kind = kind,
                 !.evicted = {e \in Entries(cache[kind]) : ~MapHas(cache'[kind], e.key)}]
    /\ UNCHANGED <<tmvars, retry, strm, req, names, admin>>

\* time passes between the responses
StoreTick ==
    /\ cvt.op = "store" /\ cache.now < MaxTime
    /\ cache' = [cache EXCEPT !.now = @ + CLEAN_INTERVAL_MS]
    /\ UNCHANGED <<tmvars, retry, strm, req, names, cvt, admin>>

InitEvict ==
    /\ InitCore /\ ParkedTM
    /\ names = IdleNames /\ admin = IdleAdmin
    /\ cache \in {[EmptyCache EXCEPT !.reasoning = Prefilled(n)] :
                    n \in {MAX_REASONING_ENTRIES - 1, MAX_REASONING_ENTRIES}}
    /\ cvt = [op |-> "store", n |-> 0, kind |-> "reasoning", evicted |-> {}]

NextEvict ==
    \/ \E kind \in {"reasoning", "tool"}, sessionId \in StoreSessions :
          StoreSignature(kind, sessionId, 1)
    \/ StoreTick

SpecEvict == InitEvict /\ [][NextEvict]_vars

SizeCapped ==
    /\ Len(cache.reasoning) <= MAX_REASONING_ENTRIES
    /\ Len(cache.tool) <= MAX_TOOL_ENTRIES

\* C27: after every set operation each signature Map has at most 256
\* entries, and an entry the operation evicted was not written later than any
\* entry it left in the Map
C27_OldestFirst ==
    cvt.op = "store" =>
       /\ SizeCapped
       /\ \A e \in cvt.evicted, s \in Entries(cache[cvt.kind]) : e.ts <= s.ts

\* -------------------------------------- the admin API on the credential file

\* the bodies of PUT /tokens/:refreshToken the operators send
Updates ==
    {[en |-> FALSE], [proj |-> TRUE], [sessionId |-> generateSessionId]}
      \cup {[rt |-> r] : r \in Rts}

\* the refresh tokens the file does not hold yet
UnusedRts == Rts \ {file[k].rt : k \in 1..Len(file)}

\* addToken(tokenData) after `await this.store.readAll()`: the new record has
\* the fields the method copies, no others
addToken(allTokens, rt, proj) == Append(allTokens, FileRec(rt, rt, FALSE, proj))

\* updateToken(refreshToken, updates) after readAll: the list to write, or
\* the list as it is when no record has the refresh token
updateToken(allTokens, refreshToken, updates) ==
    LET index == IndexOf(allTokens, 0, [t \in {allTokens[k] : k \in 1..Len(allTokens)} |->
                                           t.rt = refreshToken])
    IN IF index = 0 - 1 THEN allTokens
       ELSE [allTokens EXCEPT ![index + 1] = Spread(@, updates)]

\* deleteToken(refreshToken) after readAll
deleteToken(allTokens, refreshToken) ==
    SelectSeq(allTokens, LAMBDA t : t.rt # refreshToken)

\* an admin request arrives: the method starts store.readAll()
AdminCall(op, rt, updates) ==
    /\ admin.pc = "idle"
    /\ \E t \in Tasks \ {0} : tasks[t].pc = "new"
    /\ op = "add" => rt \in UnusedRts
    /\ (op = "update" /\ "rt" \in DOMAIN updates) => updates.rt \in UnusedRts
    /\ admin' = [IdleAdmin EXCEPT !.pc = "read", !.op = op, !.rt = rt, !.updates = updates]
    /\ UNCHANGED <<tmvars, retry, strm, cache, req, names, cvt>>

\* readAll() has resolved: the method builds the list; 'Token does not exist'
\* ends it, otherwise store.writeAll() starts
AdminRead ==
    /\ admin.pc = "read"
    /\ LET content ==
             CASE admin.op = "add" -> addToken(file, admin.rt, admin.updates = <<>>)
               [] admin.op = "update" -> updateToken(file, admin.rt, admin.updates)
               [] OTHER -> deleteToken(file, admin.rt)
           missing == admin.op # "add" /\ admin.rt \notin {file[k].rt : k \in 1..Len(file)}
       IN admin' = IF missing THEN IdleAdmin
                   ELSE [admin EXCEPT !.pc = "write", !.content = content]
    /\ UNCHANGED <<tmvars, retry, strm, cache, req, names, cvt>>

\* writeAll() has written the file: the method goes on to reload()
AdminWrite ==
    /\ admin.pc = "write"
    /\ file' = admin.content
    /\ admin' = IdleAdmin
    /\ \E t \in Tasks \ {0} :
          /\ tasks[t].pc = "new"
          /\ \A u \in Tasks \ {0} : u < t => tasks[u].pc # "new"
          /\ tasks' = [tasks EXCEPT ![t].pc = "read"]
          /\ tm' = [tm EXCEPT !._initPromise = t]
          /\ ev' = [NoEv EXCEPT !.op = "reload", !.c = t]
    /\ calls' = Disturb(calls)
    /\ hist' = <<>>
    /\ fresh' = FALSE
    /\ UNCHANGED <<config, objs, jobs, ncalls, retry, strm, cache, req, names, cvt>>

\* writeAll() has failed: the method reports the error
AdminFail ==
    /\ admin.pc = "write"
    /\ admin' = IdleAdmin
    /\ UNCHANGED <<tmvars, retry, strm, cache, req, names, cvt>>

\* the admin requests: a credential is added, updated or deleted
AdminRequest ==
    \/ \E rt \in Rts : AdminCall("add", rt, <<>>)
    \/ \E rt \in Rts, updates \in Updates : AdminCall("update", rt, updates)
    \/ \E rt \in Rts : AdminCall("delete", rt, <<>>)

AdminStep == AdminRead \/ AdminWrite \/ AdminFail

NextAdmin == StoreStep \/ TaskStep \/ CallerStep(1, MaxReloadCalls)
             \/ (Settled /\ Quiet /\ AdminRequest) \/ AdminStep

\* request handlers, the writes they start, and the operators' admin calls
\* one credential in the file when the process starts
InitAdmin == InitStore /\ Len(file) = 1

SpecAdmin == InitAdmin /\ [][NextAdmin]_vars

\* C28: no record of the credential file has a sessionId field, whatever was
\* done: initialization, refresh, disabling, quota marking, project ids,
\* admin add, update and delete
C28_NoSessionIdOnDisk ==
    \A k \in 1..Len(file) : file[k].sessionId = 0

(***************************************************************************)
(* Expiry test of a credential (TokenManager.isExpired).                   *)
(*                                                                         *)
(* Date.now(), timestamp and expires_in*1000 are millisecond counts held   *)
(* in doubles, which are exact far beyond the values involved; the model   *)
(* uses integers and a clock that starts at Now0 milliseconds, so that     *)
(* every sum stays inside TLC's integer range.  A field a record of the    *)
(* credential file does not have reads as undefined.                       *)
(***************************************************************************)
MaxTicks == 3

TOKEN_REFRESH_BUFFER == 300000

Now0 == 4000000

Undefined == [t |-> "undefined"]

Num(n) == [t |-> "number", v |-> n]

\* !x of JavaScript for a number or undefined
Falsy(x) == x.t = "undefined" \/ x.v = 0

\* now >= timestamp + expires_in*1000 - TOKEN_REFRESH_BUFFER (line 251)
isExpiredAt_strict(now, token) ==
    \/ Falsy(token.timestamp)
    \/ Falsy(token.expires_in)
    \/ LET expiresAt == token.timestamp.v + (token.expires_in.v * 1000)
       IN now > expiresAt - TOKEN_REFRESH_BUFFER

isExpiredAt(now, token) ==
    \/ Falsy(token.timestamp)
    \/ Falsy(token.expires_in)
    \/ LET expiresAt == token.timestamp.v + (token.expires_in.v * 1000)
       IN now >= expiresAt - TOKEN_REFRESH_BUFFER

\* lifetimes in seconds: missing, zero, one second, Google's usual 3599
Lifetimes == {Undefined, Num(0), Num(1), Num(3599)}

\* issue times around the boundary of every lifetime and every clock value
IssueTimes ==
    {Undefined, Num(0), Num(Now0 + 2 * TOKEN_REFRESH_BUFFER)}
      \cup {Num(Now0 + k - (e * 1000 - d)) :
              k \in 0..MaxTicks, e \in {0, 1, 3599},
              d \in (TOKEN_REFRESH_BUFFER - 1)..(TOKEN_REFRESH_BUFFER + 1)}

ExpiryTokens == [timestamp : IssueTimes, expires_in : Lifetimes]

\* one call of isExpired(token) at the current time
IsExpired ==
    /\ cvt.op = "token"
    /\ cvt' = [cvt EXCEPT !.op = "isExpired",
                          !.res = isExpiredAt(cvt.now, cvt.token)]
    /\ UNCHANGED <<tmvars, retry, strm, cache, req, names, admin>>

\* time passes between two calls
ExpiryTick ==
    /\ cvt.op \in {"token", "isExpired"}
    /\ cvt.now < Now0 + MaxTicks
    /\ cvt' = [cvt EXCEPT !.op = "token", !.now = @ + 1, !.res = FALSE]
    /\ UNCHANGED <<tmvars, retry, strm, cache, req, names, admin>>

InitExpiry ==
    /\ InitCore /\ ParkedTM
    /\ names = IdleNames /\ admin = IdleAdmin /\ cache = EmptyCache
    /\ cvt \in {[op |-> "token", now |-> Now0, token |-> t, res |-> FALSE] :
                  t \in ExpiryTokens}

NextExpiry == IsExpired \/ ExpiryTick

SpecExpiry == InitExpiry /\ [][NextExpiry]_vars

\* the comparison of the documentation; with a missing field it compares
\* with NaN and is false
PastBuffer(now, token) ==
    /\ token.timestamp.t = "number" /\ token.expires_in.t = "number"
    /\ now >= token.timestamp.v + token.expires_in.v * 1000
                - TOKEN_REFRESH_BUFFER

\* timestamp = now - (expires_in*1000 - d), both fields present and non-zero
AtOffset(d) ==
    /\ ~Falsy(cvt.token.timestamp) /\ ~Falsy(cvt.token.expires_in)
    /\ cvt.token.timestamp.v
         = cvt.now - (cvt.token.expires_in.v * 1000 - d)

\* C29 (as stated): isExpired(token) is true exactly when
\* now >= timestamp + expires_in*1000 - 300000.
C29_ExpiredExactly ==
    cvt.op = "isExpired" => (cvt.res <=> PastBuffer(cvt.now, cvt.token))

\* C29 (amended): isExpired(token) is true exactly when timestamp or
\* expires_in is missing or zero, or now >= timestamp + expires_in*1000
\* - 300000; with both fields set, a credential with timestamp = now -
\* (expires_in*1000 - 299999) is reported expired and one with timestamp =
\* now - (expires_in*1000 - 300001) is reported not expired.
C29_ExpiryBoundary ==
    cvt.op = "isExpired" =>
      /\ cvt.res <=> \/ Falsy(cvt.token.timestamp)
                     \/ Falsy(cvt.token.expires_in)
                     \/ PastBuffer(cvt.now, cvt.token)
      /\ AtOffset(299999) => cvt.res
      /\ AtOffset(300001) => ~cvt.res

C29_Witness ==
    /\ cvt.op = "isExpired"
    /\ cvt.now > Now0
    /\ cvt.token.expires_in = Num(3599)
    /\ AtOffset(300001)
    /\ ~cvt.res

\* ------------------------------------- a project-id fetch without project id
\* the step from the current state to the next is the loop of getToken()
\* running on after _prepareToken(d) returned 'disable'
UnqualifiedStep(d) ==
    /\ RtOf(d) \notin RtsOf(tm'.tokens)
    /\ \A i \in 1..Len(tm'.availableQuotaTokenIndices) :
          RtOf(TokenAt([tm |-> tm', objs |-> objs', jobs |-> jobs'],
                       tm'.availableQuotaTokenIndices[i])) # RtOf(d)
    /\ Cardinality(jobs) < MaxJobs =>
          (\E j \in jobs' : /\ j.phase = "read" /\ j.one = Undef
                            /\ RtOf(d) \in j.dis
                            /\ ~objs'[d].en)

\* C30: when the credential getToken() selected has no projectId,
\* verification is not skipped and fetchProjectId resolves without a project
\* id, the loop calls disableToken for it: enable is false, the credential is
\* out of this.tokens and of the quota index and a write of the disabled
\* pool is started; the credential is not left in the pool as after a skip.
C30_NoProjectDisables ==
    [][\A c \in Callers :
          (ev'.op = "resume" /\ ev'.c = c /\ calls[c].pc = "resume"
           /\ calls[c].prep = "disable")
              => UnqualifiedStep(calls[c].tok)]_vars

C30_Witness ==
    /\ ev.op = "resume" /\ ev.prep = "disable"
    /\ ~config.skipProjectIdFetch
    /\ ev.was
    /\ ev.rt \notin RtsOf(tm.tokens)
    /\ Len(tm.tokens) > 0
    /\ \E j \in jobs : ev.rt \in j.dis

\* ----------------------------------------------- refresh_token as identity
\* the refresh tokens of the records of the credential file
FileRts(f) == {f[k].rt : k \in 1..Len(f)}

\* the step from the current state to the next leaves the pool as it is but
\* for access_token, expires_in and timestamp of its credentials
RefreshFrame ==
    /\ tm'.tokens = tm.tokens
    /\ \A k \in 1..Len(tm.tokens) :
          LET o == tm.tokens[k]
          IN /\ objs'[o].en = objs[o].en
             /\ objs'[o].proj = objs[o].proj
             /\ objs'[o].quota = objs[o].quota

\* C31: a refresh that settles changes only access_token, expires_in and
\* timestamp of the credential: enable, projectId, hasQuota and the position
\* in the pool stay as they are (the refresh_token is the identity of the
\* object); and no operation gives a record of the file a refresh_token the
\* file did not hold, except addToken for the record it adds.
C31_RefreshTokenStable ==
    [][/\ ev'.op \in {"refresh", "taskRefresh"} => RefreshFrame
       /\ admin.op # "add" => FileRts(file') \subseteq FileRts(file)]_vars

\* ------------------------------------------------- what getToken() returns
\* the step just taken settled a getToken() call with a credential
HandedOut == ev.op \in {"enter", "refresh", "project", "resume"} /\ Handed(ev.res)

\* C32: every credential getToken() returns, under every strategy and on
\* every return path, is prepared: at the return it is not expired and it
\* has a projectId.
C32_ReturnedPrepared ==
    HandedOut =>
        LET o == calls[ev.c].tok
        IN o # Undef /\ ~isExpired(World, o) /\ objs[o].proj

\* ------------------------------------- disabled credentials and admin calls
\* two request handlers one after the other around an admin call
NextReenter == StoreStep \/ TaskStep \/ CallerStep(1, MaxStoreCalls)
               \/ (Settled /\ Quiet /\ AdminRequest) \/ AdminStep

SpecReenter == InitAdmin /\ [][NextReenter]_vars

\* disableToken has run for the credential and its write is in flight
DisableStarted(rt) == \E j \in jobs : rt \in j.dis

\* the step just taken returned the credential from getToken()
ReturnedNow(rt) == HandedOut /\ RtOf(calls[ev.c].tok) = rt

\* C33: a credential that has been disabled is not returned by getToken()
\* again (no admin call of the model re-enables one): in particular not while
\* the write that disableToken started for it is still pending, also when the
\* reload of an admin add, update or delete has run in between.
C33_DisabledStaysOut ==
    \A rt \in Rts : DisableStarted(rt) => ~ReturnedNow(rt)

\* ------------------------------------------------------ refreshes in flight
\* the OAuth refresh requests for credential rt that have not settled: those
\* of request handlers inside _prepareToken and those of the concurrent
\* refresh of an _initialize() run
RefreshesInFlight(rt) ==
    Cardinality({c \in Callers : calls[c].pc = "refresh" /\ RtOf(calls[c].tok) = rt})
      + Cardinality({<<t, o>> \in Tasks \X ObjRefs :
                        tasks[t].pc = "refresh" /\ o \in tasks[t].pend /\ RtOf(o) = rt})

\* C34: at most one OAuth refresh request per credential is in flight at any
\* time.
C34_OneRefreshInFlight == \A rt \in Rts : RefreshesInFlight(rt) <= 1

\* ------------------------------------------------ overlapping store writes
MaxMergeJobs == 2   \* mergeActiveTokens() calls in flight together

\* the pool of the first _initialize() over a file of MaxTokens enabled records
LoadedPool == [k \in 1..MaxTokens |-> <<0, k>>]

\* token.access_token = ...; token.timestamp = Date.now();
\* this.saveToFile(token): the end of refreshToken(token)
SaveRefreshed(o) ==
    /\ objs[o].at = RtOf(o)
    /\ Cardinality(jobs) < MaxMergeJobs
    /\ objs' = [objs EXCEPT ![o].at = NewAccessToken(o, @), ![o].exp = FALSE]
    /\ jobs' = jobs \cup {NewJob(tm.tokens, o)}
    /\ ev' = [NoEv EXCEPT !.op = "refresh", !.rt = RtOf(o)]
    /\ UNCHANGED <<xvars, config, tm, file, tasks, calls, ncalls, hist, fresh>>

\* token.projectId = projectId; this.saveToFile(token): the end of
\* _prepareToken(token) after fetchProjectId
SaveProject(o) ==
    /\ ~objs[o].proj
    /\ Cardinality(jobs) < MaxMergeJobs
    /\ objs' = [objs EXCEPT ![o].proj = TRUE]
    /\ jobs' = jobs \cup {NewJob(tm.tokens, o)}
    /\ ev' = [NoEv EXCEPT !.op = "project", !.rt = RtOf(o)]
    /\ UNCHANGED <<xvars, config, tm, file, tasks, calls, ncalls, hist, fresh>>

\* token.hasQuota = false; this.saveToFile(token): markQuotaExhausted(token)
\* under a strategy that keeps no index
SaveQuota(o) ==
    /\ objs[o].quota
    /\ Cardinality(jobs) < MaxMergeJobs
    /\ objs' = [objs EXCEPT ![o].quota = FALSE]
    /\ jobs' = jobs \cup {NewJob(tm.tokens, o)}
    /\ ev' = [NoEv EXCEPT !.op = "mark", !.rt = RtOf(o)]
    /\ UNCHANGED <<xvars, config, tm, file, tasks, calls, ncalls, hist, fresh>>

\* the process after its first initialization: every record of the file is
\* in the pool, no request and no write is running
InitMerge ==
    /\ config = [strategy |-> "round_robin", requestCount |-> MaxCount,
                 skipProjectIdFetch |-> FALSE]
    /\ file \in {[k \in DOMAIN f |-> [f[k] EXCEPT !.rt = k, !.at = k]] :
                   f \in {g \in Files : Len(g) = MaxTokens}}
    /\ tm = [tokens |-> LoadedPool, currentIndex |-> 0,
             rotationStrategy |-> "round_robin",
             requestCountPerToken |-> MaxCount,
             tokenRequestCounts |-> [r \in Rts |-> 0],
             availableQuotaTokenIndices |-> [k \in 1..MaxTokens |-> k - 1],
             currentQuotaIndex |-> 0,
             _initPromise |-> 0]
    /\ objs = [p \in ObjRefs |->
                 IF p[1] = 0
                 THEN [at |-> file[p[2]].at, exp |-> file[p[2]].exp,
                       proj |-> file[p[2]].proj, quota |-> file[p[2]].quota,
                       en |-> file[p[2]].en, sessionId |-> generateSessionId]
                 ELSE BlankObj]
    /\ jobs = {}
    /\ tasks = [t \in Tasks |-> IF t = 0 THEN [IdleTask EXCEPT !.pc = "done"] ELSE IdleTask]
    /\ calls = [c \in Callers |-> IdleCall]
    /\ ncalls = 0 /\ hist = <<>> /\ fresh = TRUE /\ ev = NoEv
    /\ retry = IdleRetry /\ strm = IdleStream /\ req = IdleReq
    /\ cache = EmptyCache /\ names = IdleNames /\ cvt = IdleConv /\ admin = IdleAdmin

\* writes that succeed, started by the handlers of overlapping requests
NextMerge ==
    \/ \E o \in {LoadedPool[k] : k \in 1..MaxTokens} :
          SaveRefreshed(o) \/ SaveProject(o) \/ SaveQuota(o)
    \/ \E j \in jobs : JobRead(j) \/ JobWrite(j)

SpecMerge == InitMerge /\ [][NextMerge]_vars

\* the record of the file for the credential says what the object says
Persisted(o) ==
    \E k \in 1..Len(file) :
        /\ file[k].rt = RtOf(o)
        /\ file[k].at = objs[o].at /\ file[k].exp = objs[o].exp
        /\ file[k].proj = objs[o].proj /\ file[k].quota = objs[o].quota

\* C35: when the fire-and-forget writes that were started have all
\* completed, the file holds every update: the record of each credential
\* has the fields of the object in memory, none is back at older values.
C35_NoLostUpdate ==
    jobs = {} => \A k \in 1..Len(tm.tokens) : Persisted(tm.tokens[k])

\* ------------------------------------------------- the quota filtered index
\* the positions of this.tokens that are enabled and have quota, ascending
QuotaPositions ==
    SelectIdx(Len(tm.tokens), 0,
              [i \in 0..(Len(tm.tokens) - 1) |->
                  objs[tm.tokens[i + 1]].en /\ objs[tm.tokens[i + 1]].quota])

\* C36: whenever no TokenManager operation is in progress, the quota
\* filtered index is exactly the ascending list of the positions i with
\* tokens[i].enable !== false and tokens[i].hasQuota !== false.
C36_QuotaIndexExact ==
    (Settled /\ Quiet) => tm.availableQuotaTokenIndices = QuotaPositions

\* =========================================== tool calls at the end of a stream
\* the arrival numbers of the functionCall parts received so far
ReceivedCalls == [i \in 1..strm.nfc |-> i]

\* generateAssistantResponse resolved on the 'end' of the response body
Completed == strm.pc = "done" /\ strm.last = "end"

\* C37: when the streamed request completes, every functionCall part that was
\* received on the upstream stream has been handed to the callback in a
\* tool_calls event, also when no line of the stream carried finishReason.
C37_ToolCallsDelivered == Completed => Delivered(strm.events) = ReceivedCalls

\* =========================================== the Claude-format stream handler
MaxClaudeEvents == 2   \* parser events delivered to the callback of one request

\* one SSE event written to the client: its event name, the index and the
\* block type of its payload ("thinking", "text", "tool_use"; "" when it has none)
Sse(event, index, type) == [event |-> event, index |-> index, type |-> type]

\* the closure of the streaming branch of handleClaudeRequest, held in cvt:
\* pc is the position of the handler itself, cbs the calls of the callback that
\* wait at an `await stream.writeSSE`, out the events written so far;
\* currentBlockType "null" is null. overlap records that the callback was
\* entered, or the handler went on, while an earlier call was still waiting
IdleClaude ==
    [op |-> "claude", pc |-> "idle", contentIndex |-> 0, usageData |-> FALSE,
     hasToolCall |-> FALSE, currentBlockType |-> "null", reasoningSent |-> FALSE,
     out |-> <<>>, cbs |-> <<>>, nev |-> 0, overlap |-> FALSE]

\* `stream.writeSSE(e)` is called: the event joins the response in call order
writeSSE(h, e) == [h EXCEPT !.out = Append(@, e)]

\* a call of the callback runs up to `await stream.writeSSE(e)` and waits at at
Await(h, cb, e, at) == [h |-> writeSSE(h, e), cb |-> [cb EXCEPT !.pc = at]]

\* the call of the callback has come to its end
Return(h, cb) == [h |-> h, cb |-> [cb EXCEPT !.pc = "returned"]]

\* `else if (data.type === 'reasoning')`
onReasoning(h, cb) ==
    CASE cb.pc = "start" ->
            IF ~h.reasoningSent
            THEN Await(h, cb, Sse("content_block_start", h.contentIndex, "thinking"),
                       "started")
            ELSE Await(h, cb, Sse("content_block_delta", h.contentIndex, "thinking"),
                       "last")
      [] cb.pc = "started" ->
            LET h1 == [h EXCEPT !.currentBlockType = "thinking", !.reasoningSent = TRUE]
            IN Await(h1, cb, Sse("content_block_delta", h1.contentIndex, "thinking"),
                     "last")
      [] OTHER -> Return(h, cb)

\* `for (const tc of data.tool_calls)` with cb.k calls left, then
\* `currentBlockType = null`
RECURSIVE toolLoop(_, _)
toolLoop(h, cb) ==
    CASE cb.pc = "loop" ->
            IF cb.k = 0 THEN Return([h EXCEPT !.currentBlockType = "null"], cb)
            ELSE Await(h, cb, Sse("content_block_start", h.contentIndex, "tool_use"),
                       "tcStarted")
      [] cb.pc = "tcStarted" ->
            Await(h, cb, Sse("content_block_delta", h.contentIndex, "tool_use"),
                  "tcDelta")
      [] cb.pc = "tcDelta" ->
            Await(h, cb, Sse("content_block_stop", h.contentIndex, ""), "tcStopped")
      [] OTHER ->
            toolLoop([h EXCEPT !.contentIndex = @ + 1],
                     [cb EXCEPT !.pc = "loop", !.k = @ - 1])

\* `else if (data.type === 'tool_calls')`
onToolCalls(h, cb) ==
    CASE cb.pc = "start" ->
            LET h1 == [h EXCEPT !.hasToolCall = TRUE]
            IN IF h1.currentBlockType # "null"
               THEN Await(h1, cb, Sse("content_block_stop", h1.contentIndex, ""),
                          "stopped")
               ELSE toolLoop(h1, [cb EXCEPT !.pc = "loop"])
      [] cb.pc = "stopped" ->
            toolLoop([h EXCEPT !.contentIndex = @ + 1], [cb EXCEPT !.pc = "loop"])
      [] OTHER -> toolLoop(h, cb)

\* `else { // Normal text content`
RECURSIVE onText(_, _)
onText(h, cb) ==
    CASE cb.pc = "start" ->
            IF h.currentBlockType = "thinking"
            THEN Await(h, cb, Sse("content_block_stop", h.contentIndex, ""), "stopped")
            ELSE onText(h, [cb EXCEPT !.pc = "startText"])
      [] cb.pc = "stopped" ->
            onText([h EXCEPT !.contentIndex = @ + 1, !.currentBlockType = "null"],
                   [cb EXCEPT !.pc = "startText"])
      [] cb.pc = "startText" ->
            IF h.currentBlockType # "text"
            THEN Await(h, cb, Sse("content_block_start", h.contentIndex, "text"),
                       "started")
            ELSE Await(h, cb, Sse("content_block_delta", h.contentIndex, "text"), "last")
      [] cb.pc = "started" ->
            LET h1 == [h EXCEPT !.currentBlockType = "text"]
            IN Await(h1, cb, Sse("content_block_delta", h1.contentIndex, "text"), "last")
      [] OTHER -> Return(h, cb)

\* `async (data) => { ... }` from the position of cb to its next await
callback(h, cb) ==
    CASE cb.type = "usage" -> Return([h EXCEPT !.usageData = TRUE], cb)
      [] cb.type = "reasoning" -> onReasoning(h, cb)
      [] cb.type = "tool_calls" -> onToolCalls(h, cb)
      [] OTHER -> onText(h, cb)

\* the handler state with the call cb of the callback, at place i of cbs
\* (Len + 1: a new call), run to its next await
Ran(h, i, cb) ==
    LET r == callback(h, cb)
        cbs1 == IF i > Len(h.cbs) THEN Append(h.cbs, r.cb)
                ELSE [h.cbs EXCEPT ![i] = r.cb]
    IN [r.h EXCEPT !.cbs = IF r.cb.pc = "returned" THEN RemoveAt(cbs1, i - 1) ELSE cbs1]

ClaudeEvents ==
    {[type |-> t, pc |-> "start", k |-> 0] : t \in {"usage", "reasoning", "text"}}
    \cup {[type |-> "tool_calls", pc |-> "start", k |-> n] : n \in 1..MaxToolCalls}

\* the request arrives: message_start is written, generateAssistantResponse
\* is called
ClaudeOpen ==
    /\ cvt.pc = "idle"
    /\ cvt' = [writeSSE(cvt, Sse("message_start", 0, "")) EXCEPT !.pc = "streaming"]
    /\ UNCHANGED <<tmvars, retry, strm, cache, req, names, admin>>

\* parseAndEmitStreamChunk calls callback(data) and does not await it
ClaudeEvent(data) ==
    /\ cvt.pc = "streaming" /\ cvt.nev < MaxClaudeEvents
    /\ cvt' = [Ran(cvt, Len(cvt.cbs) + 1, data)
                 EXCEPT !.nev = @ + 1, !.overlap = @ \/ cvt.cbs # <<>>]
    /\ UNCHANGED <<tmvars, retry, strm, cache, req, names, admin>>

\* the writeSSE a call of the callback waits for has resolved
ClaudeResume(i) ==
    /\ cvt.pc \notin {"idle", "done", "failed"}
    /\ i \in 1..Len(cvt.cbs)
    /\ cvt' = Ran(cvt, i, cvt.cbs[i])
    /\ UNCHANGED <<tmvars, retry, strm, cache, req, names, admin>>

\* generateAssistantResponse resolved ('end' of the upstream body): `if
\* (currentBlockType)` the last block is stopped, then message_delta
ClaudeEnd ==
    /\ cvt.pc = "streaming"
    /\ cvt' = [(IF cvt.currentBlockType # "null"
                THEN [writeSSE(cvt, Sse("content_block_stop", cvt.contentIndex, ""))
                        EXCEPT !.pc = "stopped"]
                ELSE [writeSSE(cvt, Sse("message_delta", 0, "")) EXCEPT !.pc = "delta"])
                 EXCEPT !.overlap = @ \/ cvt.cbs # <<>>]
    /\ UNCHANGED <<tmvars, retry, strm, cache, req, names, admin>>

\* the handler goes on after its own writeSSE: message_delta, message_stop,
\* then `finally` and the stream is closed
ClaudeFinish ==
    /\ cvt.pc \in {"stopped", "delta", "stop"}
    /\ cvt' = CASE cvt.pc = "stopped" ->
                     [writeSSE(cvt, Sse("message_delta", 0, "")) EXCEPT !.pc = "delta"]
                [] cvt.pc = "delta" ->
                     [writeSSE(cvt, Sse("message_stop", 0, "")) EXCEPT !.pc = "stop"]
                [] OTHER -> [cvt EXCEPT !.pc = "done"]
    /\ UNCHANGED <<tmvars, retry, strm, cache, req, names, admin>>

\* generateAssistantResponse rejected: `catch` writes the error event
ClaudeError ==
    /\ cvt.pc = "streaming"
    /\ cvt' = [writeSSE(cvt, Sse("error", 0, "")) EXCEPT !.pc = "failed"]
    /\ UNCHANGED <<tmvars, retry, strm, cache, req, names, admin>>

InitClaude ==
    /\ InitCore /\ ParkedTM
    /\ names = IdleNames /\ admin = IdleAdmin /\ cache = EmptyCache
    /\ cvt = IdleClaude

NextClaude ==
    \/ ClaudeOpen
    \/ \E data \in ClaudeEvents : ClaudeEvent(data)
    \/ \E i \in 1..MaxClaudeEvents : ClaudeResume(i)
    \/ ClaudeEnd
    \/ ClaudeFinish
    \/ ClaudeError

SpecClaude == InitClaude /\ [][NextClaude]_vars

\* the places of the events called name in the response
Written(name) == {p \in 1..Len(cvt.out) : cvt.out[p].event = name}

BlockEvents ==
    Written("content_block_start") \cup Written("content_block_delta")
    \cup Written("content_block_stop")

\* the block of index i is open just before place p: started and not stopped
OpenAt(q, p) ==
    /\ q \in Written("content_block_start") /\ q < p
    /\ \A r \in Written("content_block_stop") :
          cvt.out[r].index = cvt.out[q].index => ~(q < r /\ r < p)

\* indices start at 0 and every content_block_start uses a new index
FreshIndices ==
    \A p \in Written("content_block_start") :
       /\ (\A q \in Written("content_block_start") : p <= q) => cvt.out[p].index = 0
       /\ \A q \in Written("content_block_start") :
             q < p => cvt.out[q].index # cvt.out[p].index

\* every delta lies in the open block of its index and has the block's type
DeltasInside ==
    \A p \in Written("content_block_delta") :
       \E q \in 1..Len(cvt.out) :
          /\ OpenAt(q, p)
          /\ cvt.out[q].index = cvt.out[p].index
          /\ cvt.out[q].type = cvt.out[p].type

\* a block is stopped only when started, and not twice
StopsOnce ==
    \A p \in Written("content_block_stop") :
       /\ \E q \in Written("content_block_start") :
             q < p /\ cvt.out[q].index = cvt.out[p].index
       /\ \A r \in Written("content_block_stop") :
             cvt.out[r].index = cvt.out[p].index => r = p

\* when the handler has written message_stop every started block is stopped
AllStopped ==
    cvt.pc = "done" =>
       \A q \in Written("content_block_start") :
          \E p \in Written("content_block_stop") :
             q < p /\ cvt.out[q].index = cvt.out[p].index

\* message_delta and message_stop come after all block events, in this order
MessageLast ==
    /\ \A p \in BlockEvents :
          \A q \in Written("message_delta") \cup Written("message_stop") : p < q
    /\ \A p \in Written("message_delta") : \A q \in Written("message_stop") : p < q

\* C38: in a Claude-format stream the content blocks are well formed for every
\* sequence of parser events: indices start at 0 and each content_block_start
\* uses a new one, every delta lies between the start and the stop of the
\* block of its index and type, every started block is stopped exactly once,
\* and message_delta and message_stop follow all block events, also when
\* events are delivered while the write of an earlier one is pending.
C38_BlocksWellFormed ==
    cvt.op = "claude" =>
       FreshIndices /\ DeltasInside /\ StopsOnce /\ AllStopped /\ MessageLast

\* =========================================== admin login rate limit
NumLogins == 2      \* login requests in flight at a time
MaxFailures == 6    \* failed evaluations counted in one record
MaxLoginTime == 5   \* clock ticks

\* time is counted in units of five minutes
MAX_LOGIN_ATTEMPTS == 5
BLOCK_DURATION == 1
ATTEMPT_WINDOW == 3

\* what getClientIP yields for the requests
Ips == {"a", "b"}

\* loginAttempts.get(ip) of an ip without entry; blockedUntil 0 is undefined
NoAttempt == [has |-> FALSE, count |-> 0, lastAttempt |-> 0, blockedUntil |-> 0]

\* a login request: "wrong" and "right" are well-formed bodies with a wrong /
\* the right password, "invalid" fails the input validation
IdleLogin == [pc |-> "idle", ip |-> "a", body |-> "invalid"]

\* cvt holds the clock, the loginAttempts Map, the requests in flight and the
\* status of the last answer
InitialLogins ==
    [op |-> "login", now |-> 1, loginAttempts |-> [ip \in Ips |-> NoAttempt],
     reqs |-> [r \in 1..NumLogins |-> IdleLogin], status |-> 0]

\* checkLoginRateLimit(ip) at time now on the Map m: the answer and the Map
checkLoginRateLimit(m, ip, now) ==
    LET attempt == m[ip]
    IN IF ~attempt.has THEN [allowed |-> TRUE, m |-> m]
       ELSE IF attempt.blockedUntil # 0 /\ now < attempt.blockedUntil
       THEN [allowed |-> FALSE, m |-> m]
       ELSE IF now - attempt.lastAttempt > ATTEMPT_WINDOW
       THEN [allowed |-> TRUE, m |-> [m EXCEPT ![ip] = NoAttempt]]
       ELSE [allowed |-> TRUE, m |-> m]

\* recordLoginAttempt(ip, success) at time now
recordLoginAttempt(m, ip, success, now) ==
    IF success THEN [m EXCEPT ![ip] = NoAttempt]
    ELSE LET attempt == IF m[ip].has THEN m[ip]
                        ELSE [NoAttempt EXCEPT !.has = TRUE, !.lastAttempt = now]
             counted == [attempt EXCEPT !.count = @ + 1, !.lastAttempt = now]
         IN [m EXCEPT ![ip] =
                IF counted.count >= MAX_LOGIN_ATTEMPTS
                THEN [counted EXCEPT !.blockedUntil = now + BLOCK_DURATION]
                ELSE counted]

\* admin.post('/login') up to `await c.req.json()`: the rate limit check, and
\* the answer 429 when it fails
LoginArrive(r, ip, body) ==
    /\ cvt.op = "login" /\ cvt.reqs[r].pc = "idle"
    /\ LET rateCheck == checkLoginRateLimit(cvt.loginAttempts, ip, cvt.now)
       IN cvt' = [cvt EXCEPT
                    !.loginAttempts = rateCheck.m,
                    !.reqs[r] = IF rateCheck.allowed
                                THEN [pc |-> "json", ip |-> ip, body |-> body]
                                ELSE IdleLogin,
                    !.status = IF rateCheck.allowed THEN 0 ELSE 429]
    /\ UNCHANGED <<tmvars, retry, strm, cache, req, names, admin>>

\* the body has been read: input validation, then the password is evaluated
\* and the attempt recorded
LoginEvaluate(r) ==
    /\ cvt.op = "login" /\ cvt.reqs[r].pc = "json"
    /\ LET q == cvt.reqs[r]
       IN /\ q.body = "wrong" => cvt.loginAttempts[q.ip].count < MaxFailures
          /\ cvt' = [cvt EXCEPT
                       !.loginAttempts =
                          IF q.body = "invalid" THEN @
                          ELSE recordLoginAttempt(@, q.ip, q.body = "right", cvt.now),
                       !.reqs[r] = IdleLogin,
                       !.status = CASE q.body = "invalid" -> 400
                                    [] q.body = "right" -> 200
                                    [] OTHER -> 401]
    /\ UNCHANGED <<tmvars, retry, strm, cache, req, names, admin>>

\* time passes
LoginTick ==
    /\ cvt.op = "login" /\ cvt.now < MaxLoginTime
    /\ cvt' = [cvt EXCEPT !.now = @ + 1]
    /\ UNCHANGED <<tmvars, retry, strm, cache, req, names, admin>>

InitLogin ==
    /\ InitCore /\ ParkedTM
    /\ names = IdleNames /\ admin = IdleAdmin /\ cache = EmptyCache
    /\ cvt = InitialLogins

NextLogin ==
    \/ \E r \in 1..NumLogins, ip \in Ips, body \in {"invalid", "wrong", "right"} :
          LoginArrive(r, ip, body)
    \/ \E r \in 1..NumLogins : LoginEvaluate(r)
    \/ LoginTick

SpecLogin == InitLogin /\ [][NextLogin]_vars

\* the ip is blocked now
Blocked(ip) ==
    /\ cvt.loginAttempts[ip].blockedUntil # 0
    /\ cvt.now < cvt.loginAttempts[ip].blockedUntil

\* this step evaluates the password of a request of ip
Evaluates(ip) ==
    \E r \in 1..NumLogins :
       /\ cvt.reqs[r].pc = "json" /\ cvt.reqs[r].ip = ip
       /\ cvt.reqs[r].body # "invalid"
       /\ cvt'.reqs[r].pc = "idle"

\* C39: for each client IP the fifth failed password evaluation of its record
\* blocks the IP, and while the IP is blocked no login request from it has
\* its password evaluated, also with several requests in flight; a successful
\* login clears the record.
C39_LoginRateLimit ==
    [][\A ip \in Ips :
          /\ Evaluates(ip) => ~Blocked(ip)
          /\ cvt'.loginAttempts[ip].count >= MAX_LOGIN_ATTEMPTS
                => cvt'.loginAttempts[ip].blockedUntil # 0
          /\ (Evaluates(ip) /\ cvt'.status = 200)
                => cvt'.loginAttempts[ip] = NoAttempt]_vars

\* =========================================== refresh_token as the identity
MaxFileRecords == 3   \* records in the credential file

\* the refresh tokens of the pool _initialize() builds from the records:
\* `tokenArray.filter(token => token.enable !== false)`, in file order
poolOf(allTokens) ==
    LET recs == SelectSeq(allTokens, LAMBDA t : t.en)
    IN [k \in 1..Len(recs) |-> recs[k].rt]

\* cvt holds the credential file, the refresh tokens of the pool's entries and
\* the position of the admin method: one credential, loaded
InitialIdentity ==
    [op |-> "identity", pc |-> "idle", file |-> <<FileRec(1, 1, FALSE, FALSE)>>,
     tokens |-> <<1>>]

\* addToken / updateToken / deleteToken with any refresh token the operator
\* sends, from readAll() to the end of writeAll(); 'Token does not exist'
\* ends updateToken and deleteToken before the write
IdentityCall(op, rt, updates) ==
    /\ cvt.op = "identity" /\ cvt.pc = "idle"
    /\ op = "add" => Len(cvt.file) < MaxFileRecords
    /\ LET content ==
             CASE op = "add" -> addToken(cvt.file, rt, updates = <<>>)
               [] op = "update" -> updateToken(cvt.file, rt, updates)
               [] OTHER -> deleteToken(cvt.file, rt)
           missing == op # "add" /\ rt \notin FileRts(cvt.file)
       IN cvt' = IF missing THEN cvt
                 ELSE [cvt EXCEPT !.pc = "reload", !.file = content]
    /\ UNCHANGED <<tmvars, retry, strm, cache, req, names, admin>>

\* `await this.reload()`: the pool is rebuilt from the file
IdentityReload ==
    /\ cvt.op = "identity" /\ cvt.pc = "reload"
    /\ cvt' = [cvt EXCEPT !.pc = "idle", !.tokens = poolOf(cvt.file)]
    /\ UNCHANGED <<tmvars, retry, strm, cache, req, names, admin>>

InitIdentity ==
    /\ InitCore /\ ParkedTM
    /\ names = IdleNames /\ admin = IdleAdmin /\ cache = EmptyCache
    /\ cvt = InitialIdentity

NextIdentity ==
    \/ \E rt \in Rts, proj \in {<<>>, <<TRUE>>} : IdentityCall("add", rt, proj)
    \/ \E rt \in Rts, updates \in Updates : IdentityCall("update", rt, updates)
    \/ \E rt \in Rts : IdentityCall("delete", rt, <<>>)
    \/ IdentityReload

SpecIdentity == InitIdentity /\ [][NextIdentity]_vars

\* no two places of the sequence hold the same value
Distinct(s) == \A i, j \in 1..Len(s) : s[i] = s[j] => i = j

\* C40: after any sequence of addToken, updateToken, deleteToken and reload no
\* two records of the credential file and no two entries of the in-memory
\* pool have the same refresh_token.
C40_UniqueRefreshToken ==
    cvt.op = "identity" =>
       /\ Distinct([k \in 1..Len(cvt.file) |-> cvt.file[k].rt])
       /\ Distinct(cvt.tokens)

====
